---- MODULE Spec2Model ----
(***************************************************************************)
(* State-machine model of the vibe-agents orchestration core:              *)
(*   - Orchestrator.build, the phase pipeline with its bounded debug loop  *)
(*     (backend/orchestrator/engine.py)                                    *)
(*   - run_code_review_dialogue / run_test_debug_dialogue                  *)
(*     (backend/orchestrator/dialogue.py)                                  *)
(*   - ConversationalOrchestrator._execute_build                           *)
(*     (backend/orchestrator/conversation.py)                              *)
(* A state of the model is a point where the program is blocked in an      *)
(* external call (a worker role's think(), a sandbox command, file I/O);   *)
(* an action is the return of that call together with all the code that    *)
(* runs up to the next external call.                                      *)
(***************************************************************************)
EXTENDS Integers, Sequences, FiniteSets, TLC

\* ------------------------------------------------------------------ bounds
\* Largest task list a modelled plan carries.
MaxTasks == 1
\* Largest number of critical issues a modelled review reports.
MaxIssues == 1

\* Largest number of Sandbox objects SandboxManager is let to make.
MaxCreates == 12
\* Largest number of Sandbox objects dropped without cleanup, and of Sandbox
\* objects cleaned up.
MaxDropped == 1
MaxCleaned == 1

\* Largest number of sessions one SessionManager is let to create.
MaxSessionsMade == 12

\* Largest number of messages the client has sent ahead of the endpoint.
MaxInbox == 2

\* The messages and disconnections served in all, over the sessions.
MaxRequests == 3

\* ------------------------------------------------------- program constants
\* SandboxManager.MAX_SANDBOXES
MAX_SANDBOXES == 10
\* session_manager.MAX_SESSIONS_PER_CONNECTION
MAX_SESSIONS_PER_CONNECTION == 10
\* ProjectState.max_iterations (max debug attempts)
MaxIterations == 3

\* ------------------------------------------------------------- JSON values
\* A worker role's response text, seen through the three places
\* _extract_json looks at: the first ``` fenced block, the whole text, the
\* outermost {...} block.  Each is absent (no regex match), invalid
\* (json.loads raises JSONDecodeError) or the decoded value.
NoMatch == [kind |-> "nomatch"]
Invalid == [kind |-> "invalid"]
Decoded(v) == v.kind \notin {"nomatch", "invalid"}

\* Orchestrator._extract_json: fenced block, then whole text, then braces.
ExtractJsonNoFence(r) ==
    IF Decoded(r.whole) THEN r.whole
    ELSE IF Decoded(r.brace) THEN r.brace
    ELSE [kind |-> "none"]

ExtractJson(r) ==
    IF Decoded(r.fenced) THEN r.fenced
    ELSE IF Decoded(r.whole) THEN r.whole
    ELSE IF Decoded(r.brace) THEN r.brace
    ELSE [kind |-> "none"]

\* Python truthiness of an extracted value: None, {} and [] are falsy.
TruthyIsNotNone(v) == v.kind # "none"

Truthy(v) == v.kind \in {"dict", "list"} /\ ~v.empty

IsDict(v) == v.kind = "dict"

\* Response texts by shape.
Prose == [fenced |-> NoMatch, whole |-> Invalid, brace |-> NoMatch]
Whole(v) == [fenced |-> NoMatch, whole |-> v, brace |-> v]
Fenced(v) == [fenced |-> v, whole |-> Invalid, brace |-> v]
BadFence(v) == [fenced |-> Invalid, whole |-> Invalid, brace |-> v]
BadAll == [fenced |-> Invalid, whole |-> Invalid, brace |-> Invalid]
\* No response yet.
Silent == [fenced |-> NoMatch, whole |-> NoMatch, brace |-> NoMatch]

EmptyDict == [kind |-> "dict", empty |-> TRUE]
SomeList == [kind |-> "list", empty |-> FALSE]

\* ------------------------------------------------------------------- paths
\* A file path as the sandbox's checks see it: abs (Path.is_absolute), dots
\* (how ".." occurs in the text: not at all, as a whole segment, or inside a
\* name), inside (the resolved location lies within the work directory, the
\* directory itself included), root (the resolved location is the work
\* directory itself) and ext (Path.suffix.lower()).
MkPath(n, e) ==
    [name |-> n, abs |-> FALSE, dots |-> "none", inside |-> TRUE, root |-> FALSE, ext |-> e]
NoPath == MkPath("", "")
MainPy == MkPath("main.py", ".py")
UtilPy == MkPath("util.py", ".py")
IndexJs == MkPath("index.js", ".js")
TestPy == MkPath("test_main.py", ".py")
EvilPy ==
    [name |-> "../x.py", abs |-> FALSE, dots |-> "segment", inside |-> FALSE, root |-> FALSE,
     ext |-> ".py"]
ToolExe == MkPath("tool.exe", ".exe")
\* f"file_{i}.py", the default name of task i's file (i counts from 0)
DefaultFile(i) == MkPath(<<"file_0.py", "file_1.py", "file_2.py", "file_3.py">>[i + 1], ".py")

\* Sandbox.ALLOWED_EXTENSIONS
ALLOWED_EXTENSIONS == {".py", ".js", ".ts", ".json", ".txt", ".md", ".html", ".css", ".yaml", ".yml"}

\* Sandbox._validate_path on an initialised sandbox: TRUE when it returns,
\* FALSE when it raises ValueError.
ValidatePathNoDots(p) == ~p.abs /\ p.inside

ValidatePath(p) == ~p.abs /\ p.dots = "none" /\ p.inside

\* Sandbox._validate_file_extension
ValidateFileExtension(p) == p.ext \in ALLOWED_EXTENSIONS \/ p.ext = ""

\* Sandbox.write_file returns (TRUE) or raises ValueError (FALSE); the content
\* of a modelled file is below MAX_FILE_SIZE.
WriteFileOK(p) == ValidatePath(p) /\ ValidateFileExtension(p)

\* ================================================================= Sandbox
\* Largest number of work directories one modelled sandbox creates.
MaxSetups == 2
\* Largest number of entries of a map given to write_files.
MaxBatch == 2

\* Sandbox.MAX_FILE_SIZE
MAX_FILE_SIZE == 1048576

VARIABLES
    sb_work_dir,    \* self.work_dir: NoDir (None) or the directory mkdtemp made
    sb_dirs,        \* the work directories that exist on disk
    sb_files,       \* the files written, each in its work directory
    sb_outside,     \* the files written anywhere outside a work directory
    sb_made,        \* how many directories mkdtemp has made
    sb_last         \* the last operation, its arguments and how it ended

sandboxVars == <<sb_work_dir, sb_dirs, sb_files, sb_outside, sb_made, sb_last>>

NoDir == 0

Sbx == [work_dir |-> sb_work_dir, dirs |-> sb_dirs, files |-> sb_files,
        outside |-> sb_outside, made |-> sb_made, last |-> sb_last]

SbxSet(t) ==
    /\ sb_work_dir' = t.work_dir /\ sb_dirs' = t.dirs /\ sb_files' = t.files
    /\ sb_outside' = t.outside /\ sb_made' = t.made /\ sb_last' = t.last

\* More paths a caller can pass: an absolute one, one whose name holds ".."
\* without a ".." segment, one that a symbolic link inside the sandbox takes
\* outside, the work directory itself, and a name without extension.
AbsPy ==
    [name |-> "/etc/x.py", abs |-> TRUE, dots |-> "none", inside |-> FALSE, root |-> FALSE,
     ext |-> ".py"]
DottedPy ==
    [name |-> "a..b.py", abs |-> FALSE, dots |-> "inname", inside |-> TRUE, root |-> FALSE,
     ext |-> ".py"]
LinkPy ==
    [name |-> "link/x.py", abs |-> FALSE, dots |-> "none", inside |-> FALSE, root |-> FALSE,
     ext |-> ".py"]
DotPath ==
    [name |-> ".", abs |-> FALSE, dots |-> "none", inside |-> TRUE, root |-> TRUE, ext |-> ""]
Makefile == MkPath("Makefile", "")
SandboxPaths == {MainPy, Makefile, ToolExe, EvilPy, AbsPy, DottedPy, LinkPy, DotPath}

\* A file content: len(content), the number of characters, and the number
\* of bytes its encoding takes on disk.
Content(n, b) == [len |-> n, nbytes |-> b]
Contents ==
    {Content(10, 10), Content(MAX_FILE_SIZE, MAX_FILE_SIZE),
     Content(MAX_FILE_SIZE, 2 * MAX_FILE_SIZE), Content(MAX_FILE_SIZE + 1, MAX_FILE_SIZE + 1)}

\* Sandbox.setup: mkdtemp makes a directory that did not exist
SbSetupDo(s) ==
    [s EXCEPT !.made = @ + 1, !.work_dir = s.made + 1, !.dirs = @ \cup {s.made + 1}]

\* Sandbox.cleanup
SbCleanupDo(s) ==
    IF s.work_dir # NoDir /\ s.work_dir \in s.dirs
    THEN [s EXCEPT !.dirs = @ \ {s.work_dir},
                   !.files = {f \in @ : f.dir # s.work_dir},
                   !.work_dir = NoDir]
    ELSE s

\* How Sandbox.write_file(p, c) ends on a sandbox that has a work_dir.
WriteFileOutcome(p, c) ==
    IF ~ValidatePath(p) THEN "ValueError"
    ELSE IF ~ValidateFileExtension(p) THEN "ValueError"
    ELSE IF c.len > MAX_FILE_SIZE THEN "ValueError"
    ELSE IF p.root THEN "IsADirectoryError"
    ELSE "returned"

\* Sandbox.write_file: setup when there is no work_dir, the three checks,
\* mkdir(parents=True, exist_ok=True) and write_text.  The result is the
\* sandbox afterwards; its "last" field tells how the call ended.
SbWriteFileDo(s, p, c) ==
    LET s1 == IF s.work_dir = NoDir THEN SbSetupDo(s) ELSE s
        out == WriteFileOutcome(p, c)
        s2 == IF out \in {"IsADirectoryError", "returned"}
              THEN [s1 EXCEPT !.dirs = @ \cup {s1.work_dir}] ELSE s1
        s3 == IF out = "returned"
              THEN [s2 EXCEPT !.files = @ \cup {[dir |-> s1.work_dir, path |-> p.name]}]
              ELSE s2
    IN  [s3 EXCEPT !.last = [op |-> "write_file", outcome |-> out, path |-> p,
                             content |-> c, written |-> <<>>]]

\* Sandbox.write_files over the entries q[i..] of a map, `written` so far w:
\* a ValueError skips the entry, any other exception leaves the call.
RECURSIVE SbWriteFilesFrom(_, _, _, _)
SbWriteFilesFrom(s, q, i, w) ==
    IF i > Len(q)
    THEN [s EXCEPT !.last = [op |-> "write_files", outcome |-> "returned", map |-> q,
                             written |-> w]]
    ELSE LET s1 == SbWriteFileDo(s, q[i].path, q[i].content)
             out == s1.last.outcome
         IN  IF out = "returned"
             THEN SbWriteFilesFrom(s1, q, i + 1, Append(w, q[i].path.name))
             ELSE IF out = "ValueError"
             THEN SbWriteFilesFrom(s1, q, i + 1, w)
             ELSE [s1 EXCEPT !.last = [op |-> "write_files", outcome |-> out, map |-> q,
                                       written |-> w]]

SbWriteFilesDo(s, q) == SbWriteFilesFrom(s, q, 1, <<>>)

\* The maps given to write_files: a dict, so no path twice.
Entries == {[path |-> p, content |-> c] : p \in {MainPy, Makefile, ToolExe, EvilPy, DotPath},
            c \in {Content(10, 10), Content(MAX_FILE_SIZE + 1, MAX_FILE_SIZE + 1)}}
Maps ==
    {q \in UNION {[1..n -> Entries] : n \in 0..MaxBatch} :
        \A i, j \in DOMAIN q : i # j => q[i].path # q[j].path}

\* -------------------------------------------------- sequences used as dicts
\* state.files is a dict: keys in insertion order, no key twice.
Range(q) == {q[i] : i \in 1..Len(q)}
Put(q, k) == IF k \in Range(q) THEN q ELSE Append(q, k)

\* ==================================== FileLocator and the project records
\* Largest number of named project records the modelled requests create.
MaxProjects == 2
\* Largest numeric suffix _create_project_dir is let to reach.
MaxSuffix == 2

\* _match_existing_project: db.list_projects(limit=20)
ListLimit == 20

VARIABLES
    db_projects,    \* the active rows of the projects table, most recently
                    \* updated first (the order list_projects returns)
    db_next_id,     \* the id the next inserted row gets (AUTOINCREMENT)
    disk,           \* the directories that exist under projects_dir
    sessions,       \* per session: state.active_project_id and state.project_dir
    loc_last        \* the FileLocator.resolve call just made on its own and
                    \* what it returned; "none" once the store or the disk
                    \* has changed again

projectVars == <<db_projects, db_next_id, disk, sessions, loc_last>>

\* ------------------------------------------- state of the other components
VARIABLES
    pool,           \* SandboxManager.sandboxes: the entries in the dict's order
                    \* (the order in which the keys were first inserted), each
                    \* with the number of the Sandbox object it holds
    pool_made,      \* the number of Sandbox objects SandboxManager has made
    pool_live,      \* the Sandbox objects set up and not yet cleaned up
    pool_last       \* the last SandboxManager call and what it did

poolVars == <<pool, pool_made, pool_live, pool_last>>

VARIABLES
    mgr_sessions,   \* SessionManager.sessions: the ids of the open sessions
    mgr_made,       \* the number of sessions the manager has created
    mgr_last        \* the last SessionManager call and what it returned

mgrVars == <<mgr_sessions, mgr_made, mgr_last>>

VARIABLES
    c_inbox,        \* the messages the client has sent on the WebSocket and
                    \* websocket_endpoint has not yet received
    c_pc,           \* where websocket_endpoint is: at receive_json, or
                    \* awaiting the request it handed to the executor
    c_status,       \* Session.status of each session of the connection
    c_running       \* per session, the requests now running in the executor

connVars == <<c_inbox, c_pc, c_status, c_running>>

VARIABLES
    agents,         \* per session: every role's _session_id and the tool
                    \* agents' _project_dir
    plans,          \* per session: state.project_plan
    db_plans,       \* projects.plan_json by project id
    db_tokens,      \* the sessions table: (project id, role) -> session_id
    req_n,          \* the number of messages served so far
    req_last        \* the last request a session served and how it ended

chatVars == <<agents, plans, db_plans, db_tokens, req_n, req_last>>

VARIABLES
    res_pc,         \* per session: where its thread is in _create_project_dir:
                    \* "idle", "exists", "makedirs", "returned"
    res_target      \* per session: target of _create_project_dir

raceVars == <<res_pc, res_target>>

laterVars == <<poolVars, mgrVars, connVars, chatVars, raceVars>>

\* The state of the components other than the engine, the dialogues and
\* _execute_build.
otherVars == <<sandboxVars, projectVars, laterVars>>

\* The sessions (ConversationalOrchestrator instances) on the one store.
Sessions == {"s1", "s2"}

\* A directory under projects_dir: base, or base-k for k >= 1.
Dir(base, k) == [base |-> base, k |-> k]
NoDirectory == Dir("", 0)
ScratchDir == Dir("_scratch", 0)

\* ConversationState() as constructed: no project id (None), no directory.
NoProject == [active_project_id |-> 0, project_dir |-> NoDirectory]

\* name.lower()
Lower(name) == IF name = "MyApp" THEN "myapp" ELSE name

\* A message as resolve reads it: mentions, the lowercased names that occur
\* in message.lower(); slug, what _extract_project_name returns for it
\* (_sanitize_name of the text after build/create/make), "" for None.
Msg(text, mentions, slug) == [text |-> text, mentions |-> mentions, slug |-> slug]

\* A project name passed to resolve as the message by _setup_project.
NameAsMsg(name) ==
    IF name = "create todo" THEN Msg(name, {"create todo"}, "todo")
    ELSE Msg(name, {Lower(name)}, "")

\* The messages given to resolve directly.
Messages ==
    {Msg("Let's improve MyApp", {"myapp"}, ""),
     Msg("build a tracker like MyApp", {"myapp"}, "tracker-like-myapp"),
     Msg("fix the bug", {}, "")}

\* The project names the planner gives, and _ensure_project_dir's default.
ProjectNames == {"MyApp", "create todo", "project"}

\* db.list_projects(limit=n): the n most recently updated active rows
ListProjects(db, n) == SubSeq(db, 1, IF Len(db) < n THEN Len(db) ELSE n)

\* db.get_project(id): the row, or a row with id 0 for None
GetProject(db, id) ==
    IF \E i \in 1..Len(db) : db[i].id = id
    THEN db[CHOOSE i \in 1..Len(db) : db[i].id = id]
    ELSE [id |-> 0, name |-> "", directory |-> NoDirectory]

\* FileLocator._match_existing_project: the first listed row whose
\* lowercased name occurs in the message, or the id-0 row for None
MatchExistingProjectAll(db, m) ==
    LET hits == {i \in 1..Len(db) : Lower(db[i].name) \in m.mentions}
    IN  IF hits = {} THEN GetProject(db, 0)
        ELSE db[CHOOSE i \in hits : \A j \in hits : i <= j]

MatchExistingProject(db, m) == MatchExistingProjectAll(ListProjects(db, ListLimit), m)

\* FileLocator._create_project_dir's loop, target = base-counter
RECURSIVE ProbeFrom(_, _, _)
ProbeFrom(dsk, base, counter) ==
    IF Dir(base, counter) \in dsk THEN ProbeFrom(dsk, base, counter + 1)
    ELSE Dir(base, counter)

CreateProjectDirNoProbe(dsk, base) == Dir(base, 0)

CreateProjectDir(dsk, base) ==
    IF Dir(base, 0) \in dsk THEN ProbeFrom(dsk, base, 1) ELSE Dir(base, 0)

\* FileLocator.resolve(m, active): [directory, id (0 for None), disk
\* afterwards, rule applied]
ResolveActiveFirst(db, dsk, m, active) ==
    LET hit == MatchExistingProject(db, m)
        act == GetProject(db, active)
    IN  IF active # 0 /\ act.id # 0 /\ act.directory \in dsk
        THEN [directory |-> act.directory, id |-> act.id, disk |-> dsk, rule |-> "b"]
        ELSE IF hit.id # 0
        THEN [directory |-> hit.directory, id |-> hit.id, disk |-> dsk, rule |-> "a"]
        ELSE IF m.slug # ""
        THEN LET d == CreateProjectDir(dsk, m.slug)
             IN  [directory |-> d, id |-> 0, disk |-> dsk \cup {d}, rule |-> "c"]
        ELSE [directory |-> ScratchDir, id |-> 0, disk |-> dsk \cup {ScratchDir},
              rule |-> "d"]

Resolve(db, dsk, m, active) ==
    LET hit == MatchExistingProject(db, m)
        act == GetProject(db, active)
    IN  IF hit.id # 0
        THEN [directory |-> hit.directory, id |-> hit.id, disk |-> dsk, rule |-> "a"]
        ELSE IF active # 0 /\ act.id # 0 /\ act.directory \in dsk
        THEN [directory |-> act.directory, id |-> act.id, disk |-> dsk, rule |-> "b"]
        ELSE IF m.slug # ""
        THEN LET d == CreateProjectDir(dsk, m.slug)
             IN  [directory |-> d, id |-> 0, disk |-> dsk \cup {d}, rule |-> "c"]
        ELSE [directory |-> ScratchDir, id |-> 0, disk |-> dsk \cup {ScratchDir},
              rule |-> "d"]

\* db.update_project(id, ...): the row gets a new updated_at and so comes
\* first in list_projects
UpdateProject(db, id) ==
    LET row == GetProject(db, id)
    IN  IF row.id = 0 THEN db
        ELSE <<row>> \o SelectSeq(db, LAMBDA r : r.id # id)

\* The store, the disk and one session's state, for _setup_project.
Store(s) ==
    [db |-> db_projects, next_id |-> db_next_id, disk |-> disk, st |-> sessions[s]]

StoreSet(s, t) ==
    /\ db_projects' = t.db /\ db_next_id' = t.next_id /\ disk' = t.disk
    /\ sessions' = [sessions EXCEPT ![s] = t.st]

\* db.create_project(name, directory, ...): a new row, the most recently
\* updated one
CreateProject(db, id, name, directory) ==
    <<[id |-> id, name |-> name, directory |-> directory]>> \o db

\* What loc_last keeps of a resolve call.
Resolved(m, active, r) ==
    [op |-> "resolve", message |-> m, active |-> active, directory |-> r.directory,
     id |-> r.id, rule |-> r.rule]

\* ConversationalOrchestrator._setup_project(name)
SetupProject(w, name) ==
    IF w.st.active_project_id # 0 /\ w.st.project_dir # NoDirectory THEN w
    ELSE LET r == Resolve(w.db, w.disk, NameAsMsg(name), w.st.active_project_id)
             w1 == [w EXCEPT !.disk = r.disk]
         IN  IF r.id # 0
             THEN [w1 EXCEPT !.st = [active_project_id |-> r.id, project_dir |-> r.directory]]
             ELSE [w1 EXCEPT
                      !.db = CreateProject(@, w.next_id, name, r.directory),
                      !.next_id = @ + 1,
                      !.st = [active_project_id |-> w.next_id, project_dir |-> r.directory]]

\* ConversationalOrchestrator.resume_project(id)
ResumeProject(w, id) ==
    LET row == GetProject(w.db, id)
    IN  IF row.id = 0 THEN w
        ELSE [w EXCEPT !.st = [active_project_id |-> row.id, project_dir |-> row.directory]]

\* ============================================== ConversationalOrchestrator
\* _agents_by_name and _tool_agents as __init__ builds them.
AgentNames == {"Router", "Planner", "Coder", "Reviewer", "Tester", "Debugger"}
ToolAgents == {"Coder", "Reviewer", "Tester", "Debugger"}

\* Agent._session_id = None; the token a CLI run reports in request n is n.
NoToken == 0

\* plan_json = "" and project_plan = None; the plan made in request n is n.
NoPlanJson == 0

\* The agents of a session as constructed.
NewAgents ==
    [session_id |-> [a \in AgentNames |-> NoToken], project_dir |-> NoDirectory]

\* One session with the store and the disk.
Ch(s) ==
    [db |-> db_projects, next_id |-> db_next_id, disk |-> disk, st |-> sessions[s],
     session_id |-> agents[s].session_id, agent_dir |-> agents[s].project_dir,
     project_plan |-> plans[s], db_plans |-> db_plans, db_tokens |-> db_tokens,
     written |-> {}]

ChSet(s, c) ==
    /\ db_projects' = c.db /\ db_next_id' = c.next_id /\ disk' = c.disk
    /\ sessions' = [sessions EXCEPT ![s] = c.st]
    /\ agents' = [agents EXCEPT ![s] = [session_id |-> c.session_id,
                                        project_dir |-> c.agent_dir]]
    /\ plans' = [plans EXCEPT ![s] = c.project_plan]
    /\ db_plans' = c.db_plans /\ db_tokens' = c.db_tokens

\* F applied to v, with v evaluated once.
With(v, F(_)) == CHOOSE r \in {F(x) : x \in {v}} : TRUE

\* db.get_all_sessions(id)
GetAllSessions(tokens, id) == {t \in tokens : t.project = id}

\* _restore_sessions(id): only the roles the store has a token for are set
RestoreSessions(c0, id) ==
    With(c0, LAMBDA c :
        LET saved == GetAllSessions(c.db_tokens, id)
        IN  [c EXCEPT !.session_id =
                [a \in AgentNames |->
                    IF \E t \in saved : t.agent = a
                    THEN (CHOOSE t \in saved : t.agent = a).token
                    ELSE @[a]]])

\* _save_sessions(id): db.save_session (INSERT ... ON CONFLICT(project_id,
\* agent_name) DO UPDATE) for every role with a token; written keeps what was
\* handed to save_session
SaveSessions(c0, id) ==
    With(c0, LAMBDA c :
        LET held == {a \in AgentNames : c.session_id[a] # NoToken}
            rows == {[project |-> id, agent |-> a, token |-> c.session_id[a]] : a \in held}
        IN  [c EXCEPT
                !.db_tokens = {t \in @ : ~(t.project = id /\ t.agent \in held)} \cup rows,
                !.written = @ \cup rows])

\* projects.plan_json of row id
PlanJson(plans_, id) ==
    IF \E p \in plans_ : p.project = id
    THEN (CHOOSE p \in plans_ : p.project = id).plan_json
    ELSE NoPlanJson

\* UPDATE projects SET plan_json = plan WHERE id = id
SetPlanJson(plans_, id, plan_) ==
    {p \in plans_ : p.project # id} \cup {[project |-> id, plan_json |-> plan_]}

\* _setup_project(name, plan=plan_) with its restore of an existing project's
\* tokens and set_project_dir on the tool agents.  The directories are
\* absolute paths under the resolved projects_dir, which abspath returns as
\* they are.
SetupProjectPlan(c, name, plan_) ==
    IF c.st.active_project_id # 0 /\ c.st.project_dir # NoDirectory THEN c
    ELSE With(SetupProject([db |-> c.db, next_id |-> c.next_id, disk |-> c.disk,
                            st |-> c.st], name),
              LAMBDA w :
                  LET id == w.st.active_project_id
                      c1 == [c EXCEPT !.db = w.db, !.next_id = w.next_id, !.disk = w.disk,
                                      !.st = w.st, !.agent_dir = w.st.project_dir]
                  IN  IF w.next_id = c.next_id THEN RestoreSessions(c1, id)
                      ELSE IF plan_ # NoPlanJson
                           THEN [c1 EXCEPT !.db_plans = SetPlanJson(@, id, plan_)]
                           ELSE c1)

\* resume_project(id): the plan is assigned only when the row has one
ResumeProjectPlan(c, id) ==
    LET row == GetProject(c.db, id)
        stored == PlanJson(c.db_plans, id)
    IN  IF row.id = 0 THEN c
        ELSE [RestoreSessions(c, id) EXCEPT
                 !.st = [active_project_id |-> row.id, project_dir |-> row.directory],
                 !.project_plan = IF stored # NoPlanJson THEN stored ELSE @,
                 !.agent_dir = row.directory]

\* clear() without its _save_sessions.
ClearNoSave(c) ==
    [c EXCEPT !.st = NoProject,
              !.project_plan = NoPlanJson,
              !.session_id = [a \in AgentNames |->
                                 IF a \in ToolAgents \cup {"Router"} THEN NoToken ELSE @[a]]]

\* clear(): _save_sessions for the active project, a new ConversationState,
\* clear_history on the router and the tool agents
Clear(c) ==
    ClearNoSave(IF c.st.active_project_id # 0
                THEN SaveSessions(c, c.st.active_project_id)
                ELSE c)

\* What the classifier's CLI run can give think_json.
RouterOutcomes ==
    {"raises", "unparseable", "no_action", "not_a_dict", "DANCE",
     "CONVERSATION", "BUILD", "CODE_ONLY", "FIX", "REVIEW", "TEST"}

\* RouterAgent.route: the decision's action, or "raised" when route itself
\* fails (decision.get on a value that is not a dict)
Route(o) ==
    CASE o \in {"raises", "unparseable", "no_action"} -> "CONVERSATION"
      [] o = "not_a_dict" -> "raised"
      [] OTHER -> o

\* How a worker's think can end: with a response; with RuntimeError before
\* the CLI reported a session (not found); with RuntimeError after the
\* system event gave the session id (timeout, non-zero exit).
WorkerOutcomes == {"returns", "fails_early", "fails_late"}

\* Agent.think of role a in request n
Think(c, a, n, o) ==
    IF o = "fails_early" THEN c ELSE [c EXCEPT !.session_id[a] = n]

\* The role each single-role action invokes.
WorkerOf(action) ==
    CASE action = "CODE_ONLY" -> "Coder"
      [] action = "FIX" -> "Debugger"
      [] action = "REVIEW" -> "Reviewer"
      [] action = "TEST" -> "Tester"

ResultOf(action) ==
    CASE action = "CODE_ONLY" -> "code"
      [] action = "FIX" -> "fix"
      [] action = "REVIEW" -> "review"
      [] action = "TEST" -> "test"

\* What a handler hands back to chat: the state, the result's type
\* ("raised" for an exception), the worker roles invoked and the roles whose
\* run reported a token.
Handled(c, type, invoked, captured) ==
    [c |-> c, type |-> type, invoked |-> invoked, captured |-> captured]

\* _execute_code_only, _execute_fix, _execute_review, _execute_test: no
\* try/except around think
ExecuteOne(c, action, n, o) ==
    LET a == WorkerOf(action)
        c1 == IF action = "CODE_ONLY" \/ c.st.project_dir = NoDirectory
              THEN SetupProjectPlan(c, "project", NoPlanJson)
              ELSE c
    IN  Handled(Think(c1, a, n, o),
                IF o = "returns" THEN ResultOf(action) ELSE "raised",
                {a},
                IF o = "fails_early" THEN {} ELSE {a})

\* The roles _execute_build runs after the planner, in the order of their
\* first think: coder, then reviewer and tester in the two dialogues.
BuildRoles == <<"Coder", "Reviewer", "Tester">>

\* How _execute_build can go: the planner raises, gives an error plan or a
\* plan; the k-th worker fails after its system event (0: none fails).
BuildOutcomes ==
    {[planner |-> p, fail_at |-> 0] : p \in {"raises", "error_plan"}}
        \cup {[planner |-> "plan", fail_at |-> k] : k \in 0..Len(BuildRoles)}

\* _execute_build: everything inside try/except Exception
ExecuteBuild(c, n, o) ==
    IF o.planner # "plan" THEN Handled(c, "error", {"Planner"}, {})
    ELSE With(SetupProjectPlan([c EXCEPT !.project_plan = n], "MyApp", n),
              LAMBDA c1 :
                  LET id == c1.st.active_project_id
                      c2 == [c1 EXCEPT !.db = UpdateProject(@, id),
                                       !.db_plans = SetPlanJson(@, id, n)]
                      ran == {BuildRoles[i] :
                                 i \in 1..(IF o.fail_at = 0 THEN Len(BuildRoles)
                                           ELSE o.fail_at)}
                      c3 == [c2 EXCEPT !.session_id = [a \in AgentNames |->
                                                          IF a \in ran THEN n ELSE @[a]]]
                  IN  Handled(c3, IF o.fail_at = 0 THEN "build" ELSE "error",
                              ran \cup {"Planner"}, ran))

\* The classifier's yields that are not a decision with an action chat
\* dispatches on.
NoDecision == {"raises", "unparseable", "no_action", "not_a_dict", "DANCE"}

\* The work of a request failed: a worker's think raised, or in a build the
\* planner's did.
WorkFailed(route, o) ==
    \/ Route(route) \in {"CODE_ONLY", "FIX", "REVIEW", "TEST"} /\ o # "returns"
    \/ Route(route) = "BUILD" /\ (o.planner = "raises" \/ o.fail_at # 0)

\* The ways the work of a request can go, for each routing outcome.
WorkOutcomes(route) ==
    IF Route(route) = "BUILD" THEN BuildOutcomes
    ELSE IF Route(route) \in {"CODE_ONLY", "FIX", "REVIEW", "TEST"} THEN WorkerOutcomes
    ELSE {"none"}

\* chat(user_message) as request n: route, dispatch, then _save_sessions and
\* touch_project when a project is active
Chat(c, n, route, o) ==
    LET action == Route(route)
    IN  With(CASE action = "raised" -> Handled(c, "raised", {}, {})
               [] action = "BUILD" -> ExecuteBuild(c, n, o)
               [] action \in {"CODE_ONLY", "FIX", "REVIEW", "TEST"} ->
                      ExecuteOne(c, action, n, o)
               [] OTHER -> Handled(c, "conversation", {}, {}),
             LAMBDA h :
                 LET id == h.c.st.active_project_id
                 IN  IF h.type = "raised" \/ id = 0 THEN h
                     ELSE [h EXCEPT !.c = [SaveSessions(h.c, id) EXCEPT
                                              !.db = UpdateProject(@, id)]])

\* ========================================================== SandboxManager
\* The project ids create, get and destroy are called with.
PoolIds == 1..(MAX_SANDBOXES + 1)

Pl == [pool |-> pool, made |-> pool_made, live |-> pool_live]

PlSet(p, op) ==
    /\ pool' = p.pool /\ pool_made' = p.made /\ pool_live' = p.live
    /\ pool_last' = op

\* The positions of pool p that hold the key id (one, or none).
PoolAt(p, id) == {i \in 1..Len(p.pool) : p.pool[i].id = id}

\* SandboxManager.destroy(id): cleanup() of the sandbox held under id and
\* del of the key
PoolDestroy(p, id) ==
    IF PoolAt(p, id) = {} THEN p
    ELSE [p EXCEPT !.live = @ \ {p.pool[i].made : i \in PoolAt(p, id)},
                   !.pool = SelectSeq(@, LAMBDA e : e.id # id)]

\* SandboxManager.create(id): at the limit the first key of the dict is
\* destroyed; then a new Sandbox is set up and assigned to sandboxes[id]
\* (an existing key keeps its place in the dict and the object it held is
\* dropped as it is)
PoolCreate(p, id) ==
    LET p1 == IF Len(p.pool) >= MAX_SANDBOXES THEN PoolDestroy(p, p.pool[1].id) ELSE p
        entry == [id |-> id, made |-> p.made + 1]
    IN  [pool |-> IF PoolAt(p1, id) = {} THEN Append(p1.pool, entry)
                  ELSE [i \in 1..Len(p1.pool) |->
                           IF p1.pool[i].id = id THEN entry ELSE p1.pool[i]],
         made |-> p.made + 1,
         live |-> p1.live \cup {p.made + 1}]

\* SandboxManager.destroy_all(): cleanup() of every sandbox held, then clear()
PoolDestroyAll(p) ==
    [p EXCEPT !.live = @ \ {p.pool[i].made : i \in 1..Len(p.pool)}, !.pool = <<>>]

\* ========================================================== SessionManager
Mg == [sessions |-> mgr_sessions, made |-> mgr_made, last |-> mgr_last]

MgSet(m) ==
    /\ mgr_sessions' = m.sessions /\ mgr_made' = m.made /\ mgr_last' = m.last

\* create_session with the limit test off by one
MgrCreateSessionOffByOne(m) ==
    IF Cardinality(m.sessions) > MAX_SESSIONS_PER_CONNECTION
    THEN [m EXCEPT !.last = "rejected"]
    ELSE [sessions |-> m.sessions \cup {m.made + 1}, made |-> m.made + 1, last |-> "created"]

\* SessionManager.create_session: ValueError at the limit, else a session
\* under a new id (uuid4)
MgrCreateSession(m) ==
    IF Cardinality(m.sessions) >= MAX_SESSIONS_PER_CONNECTION
    THEN [m EXCEPT !.last = "rejected"]
    ELSE [sessions |-> m.sessions \cup {m.made + 1}, made |-> m.made + 1, last |-> "created"]

\* SessionManager.close_session(id): pop, and clear() of the orchestrator
\* (which serves no request in this model of the manager, so that clear()
\* finds no project to save for)
MgrCloseSession(m, id) ==
    IF id \in m.sessions
    THEN [m EXCEPT !.sessions = @ \ {id}, !.last = "closed"]
    ELSE [m EXCEPT !.last = "not_open"]

\* SessionManager.cleanup_all: close_session for every key
MgrCleanupAll(m) == [m EXCEPT !.sessions = {}, !.last = "cleanup"]

\* ======================================== routes.py: websocket_endpoint
\* The messages of a client: the type, the session_id given, and whether a
\* chat or build message passes check_rate_limit and validate_message.
RequestTypes == {"chat", "build", "resume"}

ClientMessages ==
    [type : {"chat", "build"}, session : Sessions, ok : BOOLEAN] \cup
    [type : {"resume", "clear", "close_session"}, session : Sessions, ok : {TRUE}] \cup
    [type : {"new_session"}, session : {"none"}, ok : {TRUE}]

AtReceive == [at |-> "receive", session |-> "none", type |-> "none"]

Cn == [inbox |-> c_inbox, pc |-> c_pc, status |-> c_status, running |-> c_running]

CnSet(c) ==
    /\ c_inbox' = c.inbox /\ c_pc' = c.pc /\ c_status' = c.status
    /\ c_running' = c.running

\* The ids of the sessions of the connection's SessionManager.
COpen(c) == {c.status[i].id : i \in 1..Len(c.status)}

\* SessionManager.set_status
CSetStatus(c, sid, v) ==
    [c EXCEPT !.status = [i \in 1..Len(@) |->
                             IF @[i].id = sid THEN [id |-> sid, status |-> v] ELSE @[i]]]

\* mgr.create_session under the id sid
CCreate(c, sid) == [c EXCEPT !.status = Append(@, [id |-> sid, status |-> "idle"])]

\* resolve_session: the id given if it is open, else the first session, else
\* a session created now; the pair of the state and the id
CResolveSession(c, sid) ==
    IF sid \in COpen(c) THEN <<c, sid>>
    ELSE IF Len(c.status) > 0 THEN <<c, c.status[1].id>>
    ELSE <<CCreate(c, sid), sid>>

\* A request handed to the executor without being awaited.
RunRequestNoAwait(c, sid, type) ==
    [CSetStatus(c, sid, "working") EXCEPT !.running[sid] = @ + 1]

\* run_chat, run_build, run_resume up to their await: status working, the
\* request handed to the executor, and the endpoint awaiting its result
RunRequest(c, sid, type) ==
    [CSetStatus(c, sid, "working") EXCEPT
        !.running[sid] = @ + 1,
        !.pc = [at |-> "await", session |-> sid, type |-> type]]

\* One pass of the loop of websocket_endpoint for the message m
Handle(c, m) ==
    IF m.type = "new_session"
    THEN CCreate(c, CHOOSE sid \in Sessions : sid \notin COpen(c))
    ELSE IF m.type = "close_session"
    THEN [c EXCEPT !.status = SelectSeq(@, LAMBDA e : e.id # m.session)]
    ELSE LET r == CResolveSession(c, m.session)
         IN  IF m.type \in RequestTypes /\ m.ok THEN RunRequest(r[1], r[2], m.type)
             ELSE r[1]

\* The request the endpoint awaits is over: status idle, response sent
Finish(c) ==
    [CSetStatus(c, c.pc.session, "idle") EXCEPT
        !.running[c.pc.session] = @ - 1, !.pc = AtReceive]

\* The request the endpoint awaits raises: the exception leaves run_chat
\* before set_status and leaves websocket_endpoint
Escape(c) ==
    [c EXCEPT !.running[c.pc.session] = @ - 1,
              !.pc = [at |-> "dead", session |-> "none", type |-> "none"]]

\* ----------------------------------------------------------- worker outputs
\* What the planner's JSON holds: project_name / tasks / files_to_create may
\* be missing; lang is tech_stack.language ("absent" when missing); deps is
\* whether tech_stack.dependencies is a non-empty list.
Plan(name, tasks, n, manifest, lang, deps) ==
    [kind |-> "dict", empty |-> FALSE, has_name |-> name, has_tasks |-> tasks,
     ntasks |-> n, has_manifest |-> manifest, lang |-> lang, deps |-> deps]
NoPlan == [kind |-> "none"]

FullPlans == {Plan(TRUE, TRUE, n, TRUE, "python", FALSE) : n \in 0..MaxTasks}
             \cup {Plan(TRUE, TRUE, MaxTasks, TRUE, "python", TRUE),
                   Plan(TRUE, TRUE, 1, TRUE, "javascript", FALSE)}
PartialPlans == {Plan(FALSE, FALSE, 0, TRUE, "absent", FALSE),
                 Plan(FALSE, TRUE, 1, TRUE, "python", FALSE),
                 Plan(TRUE, TRUE, 1, FALSE, "ruby", FALSE),
                 Plan(TRUE, FALSE, 0, FALSE, "python", TRUE)}
PlannerResponses ==
    {Prose, BadAll, Whole(EmptyDict), Fenced(EmptyDict), Fenced(SomeList)}
    \cup {Whole(v) : v \in FullPlans}
    \cup {Fenced(v) : v \in PartialPlans}
    \cup {BadFence(Plan(TRUE, TRUE, 1, TRUE, "python", FALSE))}

\* The coder's JSON: "code" present or not, file_path given or not.
CodeOut(code, p) == [kind |-> "dict", empty |-> FALSE, has_code |-> code, file_path |-> p]
CoderResponses ==
    {Prose, Whole(CodeOut(TRUE, NoPath)),
     Whole(CodeOut(TRUE, MainPy)), Fenced(CodeOut(TRUE, UtilPy)),
     Whole(CodeOut(TRUE, IndexJs)), Whole(CodeOut(TRUE, EvilPy))}

\* The coder's answers to "Fix this critical issue"
FixerResponses == {Whole(CodeOut(FALSE, NoPath)), Whole(CodeOut(TRUE, NoPath)),
                   Whole(CodeOut(TRUE, UtilPy))}

\* The debugger's JSON: need_more_info, file_path, "fix" present, and
\* fix.new_code absent/empty ("none"), at most 100 characters ("short") or
\* longer ("long").
Fix(info, p, hasfix, code) ==
    [kind |-> "dict", empty |-> FALSE, need_more_info |-> info, file_path |-> p,
     has_fix |-> hasfix, new_code |-> code]
DebuggerResponses ==
    {Prose, Whole(EmptyDict), Whole(Fix(TRUE, NoPath, FALSE, "none")),
     Whole(Fix(FALSE, NoPath, TRUE, "long")), Whole(Fix(FALSE, MainPy, FALSE, "none")),
     Whole(Fix(FALSE, MainPy, TRUE, "none")),
     Whole(Fix(FALSE, MainPy, TRUE, "long")), Fenced(Fix(FALSE, UtilPy, TRUE, "long")),
     Whole(Fix(FALSE, EvilPy, TRUE, "long")),
     Whole(Fix(FALSE, MainPy, TRUE, "short")), Whole(Fix(FALSE, UtilPy, TRUE, "short"))}

\* The reviewer's JSON: the number of issues whose severity is "critical".
Review(n) == [kind |-> "dict", empty |-> FALSE, critical |-> n]
ReviewerResponses == {Prose, Whole(EmptyDict)} \cup {Whole(Review(n)) : n \in 0..MaxIssues}

\* The tester's JSON: "code" present or not, file_path given or not.
TesterResponses ==
    {Prose, Whole(CodeOut(FALSE, NoPath)), Whole(CodeOut(TRUE, NoPath)),
     Whole(CodeOut(TRUE, ToolExe))}

\* An ExecutionResult: success, and whether stderr is non-empty.
ExecResult(ok, err) == [success |-> ok, stderr |-> err]
ExecResults == {ExecResult(TRUE, FALSE), ExecResult(FALSE, TRUE), ExecResult(FALSE, FALSE)}

\* ============================================================ dialogue.py
\* A response text is the sequence of the marker phrases it contains; a
\* signal occurs in the text when it is a substring of one of the phrases.
SignalsIn(phrase) ==
    CASE phrase = "approved" -> {"approved"}
      [] phrase = "not approved" -> {"approved", "not approved"}
      [] phrase = "looks good" -> {"looks good"}
      [] phrase = "lgtm" -> {"lgtm"}
      [] phrase = "no issues found" -> {"no issues found", "issue"}
      [] phrase = "bug" -> {"bug"}
      [] phrase = "fix" -> {"fix"}
      [] phrase = "all tests pass" -> {"all tests pass"}
      [] phrase = "tests passed" -> {"tests passed"}
      [] phrase = "0 failed" -> {"0 failed", "fail"}
      [] phrase = "no failures" -> {"no failures", "fail"}
      [] phrase = "traceback" -> {"traceback"}
      [] phrase = "error" -> {"error"}
      [] OTHER -> {}

\* s in lower
Has(text, s) == \E i \in 1..Len(text) : s \in SignalsIn(text[i])
\* lower.count(s)
Count(text, s) == Cardinality({i \in 1..Len(text) : s \in SignalsIn(text[i])})

\* _is_approved
IsApprovedLenient(text) == Has(text, "approved")

IsApproved(text) ==
    LET has_approval == \E s \in {"approved", "looks good", "lgtm", "no issues found",
                                  "no issues detected"} : Has(text, s)
        has_rejection == \E s \in {"issue", "bug", "problem", "fix", "error",
                                   "vulnerability", "concern"} : Has(text, s)
    IN  \/ has_approval /\ ~has_rejection
        \/ Has(text, "approved") /\ Count(text, "approved") > Count(text, "not approved")

\* _tests_passed
TestsPassed(text) ==
    LET has_pass == \E s \in {"all tests pass", "tests passed", "0 failed", "no failures",
                              "all passing"} : Has(text, s)
        has_fail == \E s \in {"fail", "error", "traceback", "assertion"} : Has(text, s)
    IN  has_pass /\ ~has_fail

\* The texts the roles answer with.
ReviewTexts == {<<"approved">>, <<"approved", "bug">>, <<"not approved">>,
                <<"not approved", "bug">>,
                <<"looks good">>, <<"no issues found">>, <<"bug">>, <<"lgtm", "fix">>}
TestTexts == {<<"all tests pass">>, <<"0 failed">>, <<"traceback">>,
              <<"tests passed", "error">>, <<"ran">>}
PlainTexts == {<<"done">>}

\* Largest max_rounds a modelled dialogue is started with.
MaxRounds == 3

VARIABLES
    d_pc,           \* the think() call the dialogue is blocked in; "idle",
                    \* "returned", "raised"
    d_kind,         \* "review": run_code_review_dialogue; "test": run_test_debug_dialogue
    max_rounds,     \* the max_rounds argument
    entries,        \* dialogue.entries
    round_num,      \* the for loop's round_num
    d_events,       \* the events passed to emit, in order
    test_response,  \* run_test_debug_dialogue's test_response
    last_a,         \* the first role's latest response
    d_return        \* the value the dialogue returned

dlgVars == <<d_pc, d_kind, max_rounds, entries, round_num, d_events, test_response,
             last_a, d_return>>

NoText == <<>>

Dlg == [pc |-> d_pc, kind |-> d_kind, max_rounds |-> max_rounds, entries |-> entries,
        round_num |-> round_num, events |-> d_events, test_response |-> test_response,
        last_a |-> last_a, ret |-> d_return]

DlgSet(t) ==
    /\ d_pc' = t.pc /\ d_kind' = t.kind /\ max_rounds' = t.max_rounds
    /\ entries' = t.entries /\ round_num' = t.round_num /\ d_events' = t.events
    /\ test_response' = t.test_response /\ last_a' = t.last_a /\ d_return' = t.ret

\* The two roles of a dialogue.
RoleA(k) == IF k = "review" THEN "Coder" ELSE "Tester"
RoleB(k) == IF k = "review" THEN "Reviewer" ELSE "Debugger"

\* DialogueRound.add; the response is tagged with its position so that two
\* equal texts stay two responses.
Add(d, agent, text) ==
    [d EXCEPT !.entries = Append(@, [agent |-> agent, content |-> text, n |-> Len(@) + 1])]
\* emit(event_type, data); n is the number the event carries (round,
\* rounds or exchanges)
DEmit(d, e, n) == [d EXCEPT !.events = Append(@, [type |-> e, n |-> n])]
\* DialogueRound.exchange_count
ExchangeCount(d) == Len(d.entries)
\* DialogueRound.max_exchanges as the dialogue functions set it
MaxExchanges(d) == d.max_rounds * 2
\* DialogueRound.at_limit
AtLimit(d) == ExchangeCount(d) >= MaxExchanges(d)

\* The code after the for loop: dialogue_end and the return value.
DlgEnd(d) ==
    [DEmit(d, "dialogue_end", ExchangeCount(d)) EXCEPT
        !.pc = "returned",
        !.ret = d.entries[Len(d.entries)]]

\* Whether the for loop runs its body for round n.
RoundsRemain(d, n) == n < d.max_rounds

\* The top of the for loop for round_num = n, up to the second role's think()
LoopTopUntilConverged(d, n) ==
    LET d1 == [d EXCEPT !.round_num = n]
    IN  IF d.kind = "test" /\ TestsPassed(d.test_response)
        THEN DlgEnd(DEmit(d1, "dialogue_resolved", n + 1))
        ELSE [DEmit(d1, "dialogue_exchange", n + 1) EXCEPT !.pc = "b_call"]

LoopTop(d, n) ==
    LET d1 == [d EXCEPT !.round_num = n]
    IN  IF ~RoundsRemain(d, n) THEN DlgEnd(d)
        ELSE IF AtLimit(d) THEN DlgEnd(d1)
        ELSE IF d.kind = "test" /\ TestsPassed(d.test_response)
        THEN DlgEnd(DEmit(d1, "dialogue_resolved", n + 1))
        ELSE [DEmit(d1, "dialogue_exchange", n + 1) EXCEPT !.pc = "b_call"]

\* run_*_dialogue from its entry to the first role's think()
DlgBegin(k, m) ==
    [pc |-> "a_call", kind |-> k, max_rounds |-> m, entries |-> <<>>, round_num |-> 0,
     events |-> <<[type |-> "dialogue_start", n |-> 0]>>, test_response |-> NoText,
     last_a |-> NoText, ret |-> [agent |-> "none", content |-> NoText, n |-> 0]]

\* After the first role's initial think() returned text
AfterInitial(d, text) ==
    LoopTop([Add(d, RoleA(d.kind), text) EXCEPT !.test_response = text, !.last_a = text], 0)

\* Whether the first role is asked again in round n (lines 143 and 233).
AskAgainAlways(d, n) == TRUE

AskAgain(d, n) == n < d.max_rounds - 1

\* After the second role's think() returned text in the current round
AfterSecondNoBreak(d, text) ==
    LET n == d.round_num
        d1 == Add(d, RoleB(d.kind), text)
        d2 == IF d.kind = "review" /\ IsApproved(text)
              THEN DEmit(d1, "dialogue_resolved", n + 1) ELSE d1
    IN  IF AskAgain(d, n)
        THEN [DEmit(d2, "dialogue_exchange", n + 1) EXCEPT !.pc = "a2_call"]
        ELSE LoopTop(d2, n + 1)

AfterSecond(d, text) ==
    LET n == d.round_num
        d1 == Add(d, RoleB(d.kind), text)
    IN  IF d.kind = "review" /\ IsApproved(text)
        THEN DlgEnd(DEmit(d1, "dialogue_resolved", n + 1))
        ELSE IF AskAgain(d, n)
        THEN [DEmit(d1, "dialogue_exchange", n + 1) EXCEPT !.pc = "a2_call"]
        ELSE LoopTop(d1, n + 1)

\* After the first role's revision / re-test think() returned text
AfterRevision(d, text) ==
    LoopTop([Add(d, RoleA(d.kind), text) EXCEPT !.test_response = text, !.last_a = text],
            d.round_num + 1)

TextsA(k) == IF k = "review" THEN PlainTexts ELSE TestTexts
TextsB(k) == IF k = "review" THEN ReviewTexts ELSE PlainTexts

\* ================================ ConversationalOrchestrator._execute_build
\* What Agent._extract_json_from_text returns when nothing parses.
ErrorDict == [kind |-> "dict", empty |-> FALSE, error |-> TRUE]

\* Agent._extract_json_from_text: fenced block, then braces, then the error dict
ExtractJsonFromText(r) ==
    IF Decoded(r.fenced) THEN r.fenced
    ELSE IF Decoded(r.brace) THEN r.brace
    ELSE ErrorDict

\* Agent._parse_json_output: the whole output when it is a JSON object (a
\* CLI wrapper's "result" is unwrapped), else _extract_json_from_text
ParseJsonOutput(r) ==
    IF Decoded(r.whole) /\ IsDict(r.whole)
    THEN IF "wraps" \in DOMAIN r.whole
         THEN LET inner == r.whole.wraps
              IN  IF Decoded(inner.whole) THEN inner.whole ELSE ExtractJsonFromText(inner)
         ELSE r.whole
    ELSE ExtractJsonFromText(r)

\* A CLI wrapper object {"type": ..., "result": <text>} around response r
Wrapped(r) == Whole([kind |-> "dict", empty |-> FALSE, wraps |-> r])

\* plan.get("error") is truthy
PlanErrorNever(v) == FALSE

PlanError(v) == "error" \in DOMAIN v /\ v.error

\* The outputs of the planner's CLI run that think_json parses.
PlannerOutputs ==
    {Prose, BadAll, Whole(EmptyDict), Fenced(SomeList), Wrapped(Prose),
     Wrapped(Whole(Plan(TRUE, TRUE, 1, TRUE, "python", FALSE))),
     Whole(Plan(TRUE, TRUE, 1, TRUE, "python", FALSE))}
    \cup {Fenced(v) : v \in PartialPlans}

VARIABLES
    x_pc,           \* the call _execute_build is blocked in; "idle", "done"
    project_plan,   \* state.project_plan
    x_phases,       \* the phase names _execute_build emitted, in order
    x_events,       \* the other event types it emitted
    x_result,       \* the dict _execute_build returned
    x_said          \* the planner's output

convVars == <<x_pc, project_plan, x_phases, x_events, x_result, x_said>>

Conv == [pc |-> x_pc, project_plan |-> project_plan, phases |-> x_phases,
         events |-> x_events, result |-> x_result, said |-> x_said]

ConvSet(t) ==
    /\ x_pc' = t.pc /\ project_plan' = t.project_plan /\ x_phases' = t.phases
    /\ x_events' = t.events /\ x_result' = t.result /\ x_said' = t.said

\* emit("phase", name)
XPhase(x, name) == [x EXCEPT !.phases = Append(@, name)]
XEmit(x, e) == [x EXCEPT !.events = @ \cup {e}]

\* _execute_build's except clause (lines 442-444)
XFail(x, e) == [XEmit(x, "error") EXCEPT !.pc = "done", !.result = [type |-> "error", error |-> e]]

\* _execute_build from its entry to planner.think_json (lines 353-358)
XBegin(x) == [XPhase(x, "Planning") EXCEPT !.pc = "plan_call"]

\* _execute_build after think_json returned the parse of output r, up to
\* coder.think (lines 360-398); setup_ok: _setup_project and
\* db.update_project did not raise
XAfterPlanner(x, r, setup_ok) ==
    LET v == ParseJsonOutput(r)
        x0 == [x EXCEPT !.said = r]
    IN  IF ~IsDict(v) THEN XFail(x0, "AttributeError")
        ELSE IF PlanError(v)
        THEN [x0 EXCEPT !.pc = "done",
                        !.result = [type |-> "error", error |-> "Failed to create plan"]]
        ELSE LET x1 == XEmit([x0 EXCEPT !.project_plan = v], "plan_ready")
             IN  IF ~setup_ok THEN XFail(x1, "sqlite3.Error")
                 ELSE [XPhase(x1, "Coding") EXCEPT !.pc = "code_call"]

\* after coder.think returned: on to the Coder/Reviewer dialogue (line 401)
XAfterCoder(x) == [XPhase(x, "Reviewing") EXCEPT !.pc = "review_dlg"]
\* after run_code_review_dialogue returned: on to the Tester/Debugger
\* dialogue (line 411)
XAfterReview(x) == [XPhase(x, "Testing") EXCEPT !.pc = "test_dlg"]
\* after run_test_debug_dialogue returned (lines 420-440)
XAfterTest(x) ==
    [XEmit(x, "build_complete") EXCEPT
        !.pc = "done", !.result = [type |-> "build", success |-> TRUE]]

\* ====================================================== Orchestrator.build
VARIABLES
    pc,                 \* the external call build() is blocked in; "idle", "done"
    status,             \* state.status (a ProjectStatus value; "none" before build)
    status_log,         \* every value assigned to state.status, in order
    plan,               \* state.plan
    files,              \* state.files: the paths, in insertion order
    test_files,         \* state.test_files: the paths
    current_task,       \* state.current_task
    errors,             \* state.errors
    iterations,         \* state.iterations
    messages,           \* the event types appended to state.messages
    execution_results,  \* state.execution_results
    result,             \* the dict build() returned
    work_dir,           \* sandbox.work_dir is set
    main_file,          \* _phase_verification's main_file
    debug_for,          \* which check called _debug_loop: "lint" or "run"
    debug_file,         \* the file_path the debug loop re-runs
    debug_runs,         \* how often _debug_loop was entered
    loop_events,        \* the event types the current _debug_loop run emitted
    debugger_calls,     \* how often the debug loop invoked debugger.think
    issues_left,        \* _fix_issues: critical issues still to be handled
    planner_said        \* the planner's response text

engineVars == <<pc, status, status_log, plan, files, test_files, current_task, errors,
                iterations, messages, execution_results, result, work_dir, main_file,
                debug_for, debug_file, debug_runs, loop_events, debugger_calls,
                issues_left, planner_said>>

NoResult == [success |-> FALSE, returned |-> FALSE]

\* The build's state as one record, so that the code between two external
\* calls is a function from state to state.
Eng == [pc |-> pc, status |-> status, status_log |-> status_log, plan |-> plan,
        files |-> files, test_files |-> test_files, current_task |-> current_task,
        errors |-> errors, iterations |-> iterations, messages |-> messages,
        execution_results |-> execution_results, result |-> result,
        work_dir |-> work_dir, main_file |-> main_file, debug_for |-> debug_for,
        debug_file |-> debug_file, debug_runs |-> debug_runs,
        loop_events |-> loop_events, debugger_calls |-> debugger_calls,
        issues_left |-> issues_left, planner_said |-> planner_said]

EngSet(t) ==
    /\ pc' = t.pc /\ status' = t.status /\ status_log' = t.status_log
    /\ plan' = t.plan /\ files' = t.files /\ test_files' = t.test_files
    /\ current_task' = t.current_task /\ errors' = t.errors
    /\ iterations' = t.iterations /\ messages' = t.messages
    /\ execution_results' = t.execution_results /\ result' = t.result
    /\ work_dir' = t.work_dir /\ main_file' = t.main_file
    /\ debug_for' = t.debug_for /\ debug_file' = t.debug_file
    /\ debug_runs' = t.debug_runs /\ loop_events' = t.loop_events
    /\ debugger_calls' = t.debugger_calls /\ issues_left' = t.issues_left
    /\ planner_said' = t.planner_said
    /\ UNCHANGED <<dlgVars, convVars, otherVars>>

\* Orchestrator.emit
Emit(s, e) == [s EXCEPT !.messages = @ \cup {e}]
\* emit from inside _debug_loop
EmitLoop(s, e) == [s EXCEPT !.messages = @ \cup {e}, !.loop_events = @ \cup {e}]
\* self.state.status = ...
SetStatus(s, st) == [s EXCEPT !.status = st, !.status_log = Append(@, st)]
\* Sandbox.cleanup, from build()'s finally
CleanupNever(s) == s

Cleanup(s) == [s EXCEPT !.work_dir = FALSE]

\* build()'s except clause followed by its finally clause; "at" notes the
\* call the exception came out of.
FailKeepsStatus(s, e) ==
    Cleanup([Emit(s, "error") EXCEPT
                !.errors = Append(@, e), !.pc = "done",
                !.result = [success |-> FALSE, returned |-> TRUE, error |-> e,
                            partial_files |-> s.files, at |-> s.pc]])

Fail(s, e) ==
    Cleanup([Emit(SetStatus(s, "failed"), "error") EXCEPT
                !.errors = Append(@, e), !.pc = "done",
                !.result = [success |-> FALSE, returned |-> TRUE, error |-> e,
                            partial_files |-> s.files, at |-> s.pc]])

\* The tail of build()'s try block and its finally clause.
Complete(s) ==
    Cleanup([Emit(SetStatus(s, "complete"), "complete") EXCEPT
                !.pc = "done",
                !.result = [success |-> TRUE, returned |-> TRUE, files |-> s.files,
                            test_files |-> s.test_files]])

\* The order of the phase calls in build()'s try block.
PhaseAfterAsInEnum(ph) ==
    CASE ph = "planning" -> "coding"
      [] ph = "coding" -> "review"
      [] ph = "review" -> "testing"
      [] ph = "testing" -> "verification"
      [] ph = "verification" -> "save"
      [] OTHER -> "complete"

PhaseAfter(ph) ==
    CASE ph = "planning" -> "coding"
      [] ph = "coding" -> "verification"
      [] ph = "verification" -> "review"
      [] ph = "review" -> "testing"
      [] ph = "testing" -> "save"
      [] OTHER -> "complete"

\* plan.get("tasks", [])
NumTasks(p) == IF "has_tasks" \in DOMAIN p /\ p.has_tasks THEN p.ntasks ELSE 0
\* tech_stack.get("language", "python").lower()
Language(p) == IF "lang" \in DOMAIN p /\ p.lang # "absent" THEN p.lang ELSE "python"
\* tech_stack.get("dependencies", []) is non-empty
HasDeps(p) == "deps" \in DOMAIN p /\ p.deps

\* Orchestrator._find_main_file
CommonNames(lang) ==
    CASE lang = "python" -> <<"main.py", "app.py", "run.py", "__main__.py">>
      [] lang \in {"javascript", "js", "node"} -> <<"index.js", "main.js", "app.js">>
      [] OTHER -> <<"main.py">>

FindMainFile(fs, lang) ==
    LET names == CommonNames(lang)
        hits == {i \in 1..Len(names) : \E p \in Range(fs) : p.name = names[i]}
    IN  IF hits # {}
        THEN LET i == CHOOSE j \in hits : \A k \in hits : j <= k
             IN  CHOOSE p \in Range(fs) : p.name = names[i]
        ELSE IF fs # <<>> THEN fs[1] ELSE NoPath

RECURSIVE EnterPhase(_, _)

\* Return from phase ph into build(), which calls the next phase.
Continue(s, ph) == EnterPhase(s, PhaseAfter(ph))

\* _phase_planning up to planner.think
EnterPlanning(s) == [Emit(SetStatus(s, "planning"), "phase") EXCEPT !.pc = "plan_call"]

\* _phase_coding: the head of the task loop for task i (counted from 1),
\* up to coder.think
CodingTask(s, i) ==
    IF i > NumTasks(s.plan) THEN Continue(s, "coding")
    ELSE [Emit(s, "task_start") EXCEPT !.current_task = i, !.pc = "code_call"]

EnterCoding(s) == CodingTask(Emit(SetStatus(s, "coding"), "phase"), 1)

\* _phase_verification from "Run the code" (line 273) up to the run command
StartRun(s) == [s EXCEPT !.pc = "run_call"]

\* _phase_verification from "Install dependencies" (line 267)
AfterLint(s) ==
    IF HasDeps(s.plan) /\ Language(s.plan) = "python"
    THEN [Emit(s, "installing_deps") EXCEPT !.pc = "deps_call"]
    ELSE StartRun(s)

\* Return from _debug_loop to its caller in _phase_verification.
ReturnFromDebug(s) ==
    IF s.debug_for = "lint" THEN AfterLint(s) ELSE Continue(s, "verification")

\* _debug_loop line 364, after the while loop
LoopExitSilent(s) == ReturnFromDebug(s)

LoopExitAborts(s) == Fail(EmitLoop(s, "debug_exhausted"), "RuntimeError")

LoopExit(s) == ReturnFromDebug(EmitLoop(s, "debug_exhausted"))

\* The while test of _debug_loop (line 302) and the loop body up to
\* debugger.think
LoopHeadNoCount(s) ==
    IF s.iterations < MaxIterations
    THEN [EmitLoop(s, "debug_attempt") EXCEPT !.pc = "debug_call"]
    ELSE LoopExit(s)

LoopHeadOffByOne(s) ==
    IF s.iterations <= MaxIterations
    THEN [EmitLoop(s, "debug_attempt") EXCEPT
             !.iterations = @ + 1, !.debugger_calls = @ + 1, !.pc = "debug_call"]
    ELSE LoopExit(s)

LoopHead(s) ==
    IF s.iterations < MaxIterations
    THEN [EmitLoop(s, "debug_attempt") EXCEPT
             !.iterations = @ + 1, !.debugger_calls = @ + 1, !.pc = "debug_call"]
    ELSE LoopExit(s)

\* _debug_loop entered from check c ("lint" or "run")
EnterDebugLoop(s, c) ==
    LoopHead([SetStatus(s, "debugging") EXCEPT
                 !.debug_for = c, !.debug_runs = @ + 1, !.loop_events = {}])

\* _phase_verification up to the first sandbox command
EnterVerification(s) ==
    LET s1 == Emit(SetStatus(s, "verifying"), "phase")
        lang == Language(s.plan)
        mf == FindMainFile(s.files, lang)
    IN  IF s.files = <<>> THEN Continue(Emit(s1, "warning"), "verification")
        ELSE IF mf.name = "" THEN Continue(Emit([s1 EXCEPT !.work_dir = TRUE], "warning"), "verification")
        ELSE LET s2 == [Emit(s1, "executing") EXCEPT !.work_dir = TRUE, !.main_file = mf]
             IN  IF lang = "python" THEN [s2 EXCEPT !.pc = "lint_call"] ELSE AfterLint(s2)

\* _phase_review up to reviewer.think
EnterReview(s) == [Emit(SetStatus(s, "reviewing"), "phase") EXCEPT !.pc = "review_call"]

\* _phase_testing up to tester.think
EnterTesting(s) == [Emit(SetStatus(s, "testing"), "phase") EXCEPT !.pc = "test_call"]

\* _save_project: blocked in file I/O
EnterSave(s) == [s EXCEPT !.pc = "save_call"]

EnterPhase(s, ph) ==
    CASE ph = "planning" -> EnterPlanning(s)
      [] ph = "coding" -> EnterCoding(s)
      [] ph = "verification" -> EnterVerification(s)
      [] ph = "review" -> EnterReview(s)
      [] ph = "testing" -> EnterTesting(s)
      [] ph = "save" -> EnterSave(s)
      [] OTHER -> Complete(s)

\* ------------------------------------------- the code after each call returns
\* _phase_planning after planner.think returned r (lines 187-193)
AfterPlanner(s, r) ==
    LET v == ExtractJson(r)
        s0 == [s EXCEPT !.planner_said = r]
    IN  IF ~Truthy(v) THEN Fail(s0, "ValueError")
        ELSE IF ~IsDict(v) THEN Fail([s0 EXCEPT !.plan = v], "AttributeError")
        ELSE Continue(Emit([s0 EXCEPT !.plan = v], "plan_ready"), "planning")

\* _phase_coding after coder.think returned r for the current task
\* (lines 221-228), and on to the next task
AfterCoder(s, r) ==
    LET v == ExtractJson(r)
        i == s.current_task
        p == IF v.file_path.name = "" THEN DefaultFile(i - 1) ELSE v.file_path
    IN  IF Truthy(v) /\ IsDict(v) /\ v.has_code
        THEN CodingTask(Emit([s EXCEPT !.files = Put(@, p)], "file_created"), i + 1)
        ELSE CodingTask(s, i + 1)

\* _phase_verification after sandbox.lint_python returned (lines 259-265)
AfterLintCall(s, res) ==
    IF ~res.success THEN EnterDebugLoop(Emit(s, "lint_error"), "lint") ELSE AfterLint(s)

\* _phase_verification after the run command returned (lines 281-296)
AfterRun(s, res) ==
    LET s1 == Emit([s EXCEPT !.execution_results = Append(@, res)], "execution_result")
    IN  IF ~res.success /\ res.stderr THEN EnterDebugLoop(s1, "run")
        ELSE Continue(s1, "verification")

\* _debug_loop after debugger.think returned r (lines 319-350, 360-362)
AfterDebugger(s, r) ==
    LET v == ExtractJson(r)
    IN  IF ~Truthy(v) THEN LoopExit(EmitLoop(s, "debug_failed"))
        ELSE IF ~IsDict(v) THEN Fail(s, "AttributeError")
        ELSE IF v.need_more_info THEN LoopExit(EmitLoop(s, "debug_question"))
        ELSE IF v.file_path.name # "" /\ v.has_fix
        THEN IF v.new_code = "none" THEN LoopHead(s)
             ELSE LET p == v.file_path
                      fs == IF v.new_code = "long" THEN Put(s.files, p) ELSE s.files
                      s1 == EmitLoop([s EXCEPT !.files = fs], "fix_applied")
                  IN  IF p \notin Range(fs) THEN Fail(s1, "KeyError")
                      ELSE IF ~WriteFileOK(p) THEN Fail(s1, "ValueError")
                      ELSE [s1 EXCEPT !.pc = "rerun_call", !.debug_file = p]
        ELSE LoopExit(EmitLoop(s, "debug_failed"))

\* _debug_loop after the re-run returned (lines 353-358)
AfterRerun(s, res) ==
    IF res.success THEN ReturnFromDebug(EmitLoop(s, "debug_success")) ELSE LoopHead(s)

\* _fix_issues: the head of the loop over the critical issues
FixIssue(s) ==
    IF s.issues_left = 0 THEN Continue(s, "review")
    ELSE [Emit(s, "fixing") EXCEPT !.pc = "fix_call"]

\* _phase_review after reviewer.think returned r (lines 381-392)
AfterReviewer(s, r) ==
    LET v == ExtractJson(r)
    IN  IF ~Truthy(v) THEN Continue(s, "review")
        ELSE IF ~IsDict(v) THEN Fail(Emit(s, "review_complete"), "AttributeError")
        ELSE IF v.critical > 0
        THEN FixIssue([Emit(Emit(s, "review_complete"), "fixing_issues") EXCEPT
                          !.issues_left = v.critical])
        ELSE Continue(Emit(s, "review_complete"), "review")

\* _fix_issues after coder.think returned r (lines 442-447)
AfterFixer(s, r) ==
    LET v == ExtractJson(r)
        s1 == [s EXCEPT !.issues_left = @ - 1]
    IN  IF Truthy(v) /\ IsDict(v) /\ v.has_code /\ v.file_path.name # ""
        THEN FixIssue(Emit([s1 EXCEPT !.files = Put(@, v.file_path)], "file_updated"))
        ELSE FixIssue(s1)

\* _phase_testing after tester.think returned r (lines 408-422)
AfterTester(s, r) ==
    LET v == ExtractJson(r)
        p == IF v.file_path.name = "" THEN TestPy ELSE v.file_path
    IN  IF Truthy(v) /\ IsDict(v) /\ v.has_code
        THEN LET s1 == Emit([s EXCEPT !.test_files = @ \cup {p}, !.work_dir = TRUE],
                            "test_created")
             IN  IF ~WriteFileOK(p) THEN Fail(s1, "ValueError")
                 ELSE [s1 EXCEPT !.pc = "testrun_call"]
        ELSE Continue(s, "testing")

\* _phase_testing after the test command returned (lines 424-427)
AfterTestRun(s, res) == Continue(Emit(s, "test_result"), "testing")

\* What a sandbox command on path p can return: a path _validate_path
\* rejects gives success=False with empty stderr.
RunOutcomes(p) == IF ValidatePath(p) THEN ExecResults ELSE {ExecResult(FALSE, FALSE)}

\* ------------------------------------------------------------------ actions
\* build() from its entry to planner.think (lines 117-126, 180-185)
BuildStart ==
    /\ pc = "idle"
    /\ EngSet(EnterPlanning([Eng EXCEPT !.status = "planning",
                                        !.status_log = <<"planning">>]))

PlannerReturns ==
    /\ pc = "plan_call"
    /\ \E r \in PlannerResponses : EngSet(AfterPlanner(Eng, r))

CoderReturns ==
    /\ pc = "code_call"
    /\ \E r \in CoderResponses : EngSet(AfterCoder(Eng, r))

LintReturns ==
    /\ pc = "lint_call"
    /\ \E res \in RunOutcomes(main_file) : EngSet(AfterLintCall(Eng, res))

DepsReturns ==
    /\ pc = "deps_call"
    /\ EngSet(StartRun(Eng))

RunReturns ==
    /\ pc = "run_call"
    /\ \E res \in (IF Language(plan) \in {"python", "javascript", "js", "node"}
                   THEN RunOutcomes(main_file) ELSE ExecResults) :
          EngSet(AfterRun(Eng, res))

DebuggerReturns ==
    /\ pc = "debug_call"
    /\ \E r \in DebuggerResponses : EngSet(AfterDebugger(Eng, r))

RerunReturns ==
    /\ pc = "rerun_call"
    /\ \E res \in ExecResults : EngSet(AfterRerun(Eng, res))

ReviewerReturns ==
    /\ pc = "review_call"
    /\ \E r \in ReviewerResponses : EngSet(AfterReviewer(Eng, r))

FixerReturns ==
    /\ pc = "fix_call"
    /\ \E r \in FixerResponses : EngSet(AfterFixer(Eng, r))

TesterReturns ==
    /\ pc = "test_call"
    /\ \E r \in TesterResponses : EngSet(AfterTester(Eng, r))

TestRunReturns ==
    /\ pc = "testrun_call"
    /\ \E res \in ExecResults : EngSet(AfterTestRun(Eng, res))

SaveReturns ==
    /\ pc = "save_call"
    /\ EngSet(Continue(Eng, "save"))

\* _save_project's file I/O raises OSError
SaveRaises ==
    /\ pc = "save_call"
    /\ EngSet(Fail(Eng, "OSError"))

\* A worker role's think() raises RuntimeError (Agent.think: CLI missing,
\* timeout, CLI error)
ThinkCalls == {"plan_call", "code_call", "debug_call", "review_call", "fix_call", "test_call"}

ThinkRaises ==
    /\ pc \in ThinkCalls
    /\ EngSet(Fail(Eng, "RuntimeError"))

vars == <<engineVars, dlgVars, convVars, otherVars>>

Init ==
    /\ pc = "idle" /\ status = "none" /\ status_log = <<>> /\ plan = NoPlan
    /\ files = <<>> /\ test_files = {} /\ current_task = 0 /\ errors = <<>>
    /\ iterations = 0 /\ messages = {} /\ execution_results = <<>>
    /\ result = NoResult /\ work_dir = FALSE /\ main_file = NoPath
    /\ debug_for = "none" /\ debug_file = NoPath /\ debug_runs = 0
    /\ loop_events = {} /\ debugger_calls = 0 /\ issues_left = 0
    /\ planner_said = Silent
    /\ d_pc = "idle" /\ d_kind = "none" /\ max_rounds = 0 /\ entries = <<>>
    /\ round_num = 0 /\ d_events = <<>> /\ test_response = NoText
    /\ last_a = NoText /\ d_return = [agent |-> "none", content |-> NoText, n |-> 0]
    /\ x_pc = "idle" /\ project_plan = NoPlan /\ x_phases = <<>> /\ x_events = {}
    /\ x_result = [type |-> "none"] /\ x_said = Silent
    /\ sb_work_dir = NoDir /\ sb_dirs = {} /\ sb_files = {} /\ sb_outside = {}
    /\ sb_made = 0 /\ sb_last = [op |-> "none"]
    /\ db_projects = <<>> /\ db_next_id = 1 /\ disk = {}
    /\ sessions = [s \in Sessions |-> NoProject] /\ loc_last = [op |-> "none"]
    /\ pool = <<>> /\ pool_made = 0 /\ pool_live = {} /\ pool_last = "none"
    /\ mgr_sessions = {} /\ mgr_made = 0 /\ mgr_last = "none"
    /\ c_inbox = <<>> /\ c_pc = AtReceive /\ c_status = <<>>
    /\ c_running = [s \in Sessions |-> 0]
    /\ agents = [s \in Sessions |-> NewAgents]
    /\ plans = [s \in Sessions |-> NoPlanJson]
    /\ db_plans = {} /\ db_tokens = {} /\ req_n = 0 /\ req_last = [op |-> "none"]
    /\ res_pc = [s \in Sessions |-> "idle"]
    /\ res_target = [s \in Sessions |-> NoDirectory]

Next ==
    \/ BuildStart
    \/ PlannerReturns
    \/ CoderReturns
    \/ LintReturns
    \/ DepsReturns
    \/ RunReturns
    \/ DebuggerReturns
    \/ RerunReturns
    \/ ReviewerReturns
    \/ FixerReturns
    \/ TesterReturns
    \/ TestRunReturns
    \/ SaveReturns
    \/ SaveRaises
    \/ ThinkRaises

Spec == Init /\ [][Next]_vars

\* build() runs in one thread and every external call returns or raises:
\* the build keeps taking steps until it has returned.
FairSpec == Spec /\ WF_vars(Next)

\* ---------------------------------------------------------- dialogue actions
\* A caller starts one of the two dialogues with some max_rounds.
DlgStart ==
    /\ d_pc = "idle" /\ x_pc = "idle"
    /\ \E k \in {"review", "test"}, m \in 0..MaxRounds : DlgSet(DlgBegin(k, m))
    /\ UNCHANGED <<engineVars, convVars, otherVars>>

InitialReturns ==
    /\ d_pc = "a_call"
    /\ \E text \in TextsA(d_kind) : DlgSet(AfterInitial(Dlg, text))
    /\ UNCHANGED <<engineVars, convVars, otherVars>>

SecondReturns ==
    /\ d_pc = "b_call"
    /\ \E text \in TextsB(d_kind) : DlgSet(AfterSecond(Dlg, text))
    /\ UNCHANGED <<engineVars, convVars, otherVars>>

RevisionReturns ==
    /\ d_pc = "a2_call"
    /\ \E text \in TextsA(d_kind) : DlgSet(AfterRevision(Dlg, text))
    /\ UNCHANGED <<engineVars, convVars, otherVars>>

\* A role's think() raises inside a dialogue: the exception leaves the
\* dialogue function.
DlgThinkRaises ==
    /\ d_pc \in {"a_call", "b_call", "a2_call"}
    /\ d_pc' = "raised"
    /\ UNCHANGED <<d_kind, max_rounds, entries, round_num, d_events, test_response,
                   last_a, d_return>>
    /\ UNCHANGED <<engineVars, convVars, otherVars>>

DlgNext == InitialReturns \/ SecondReturns \/ RevisionReturns \/ DlgThinkRaises

NextDialogue == DlgStart \/ DlgNext

SpecDialogue == Init /\ [][NextDialogue]_vars

\* ---------------------------------------------------- _execute_build actions
\* chat() routed the message to BUILD and called _execute_build.
XStart ==
    /\ x_pc = "idle" /\ d_pc = "idle"
    /\ ConvSet(XBegin(Conv))
    /\ UNCHANGED <<engineVars, dlgVars, otherVars>>

XPlannerReturns ==
    /\ x_pc = "plan_call"
    /\ \E r \in PlannerOutputs, ok \in BOOLEAN : ConvSet(XAfterPlanner(Conv, r, ok))
    /\ UNCHANGED <<engineVars, dlgVars, otherVars>>

\* coder.think returned: _execute_build calls run_code_review_dialogue with
\* max_rounds=2
XCoderReturns ==
    /\ x_pc = "code_call"
    /\ ConvSet(XAfterCoder(Conv))
    /\ DlgSet(DlgBegin("review", 2))
    /\ UNCHANGED <<engineVars, otherVars>>

\* run_code_review_dialogue returned: _execute_build calls
\* run_test_debug_dialogue with max_rounds=2
XReviewReturns ==
    /\ x_pc = "review_dlg" /\ d_pc = "returned"
    /\ ConvSet(XAfterReview(Conv))
    /\ DlgSet(DlgBegin("test", 2))
    /\ UNCHANGED <<engineVars, otherVars>>

XTestReturns ==
    /\ x_pc = "test_dlg" /\ d_pc = "returned"
    /\ ConvSet(XAfterTest(Conv))
    /\ UNCHANGED <<engineVars, dlgVars, otherVars>>

\* think_json or think raised RuntimeError, directly or inside a dialogue
XThinkRaises ==
    /\ \/ x_pc \in {"plan_call", "code_call"}
       \/ x_pc \in {"review_dlg", "test_dlg"} /\ d_pc = "raised"
    /\ ConvSet(XFail(Conv, "RuntimeError"))
    /\ UNCHANGED <<engineVars, dlgVars, otherVars>>

NextChat ==
    \/ XStart
    \/ XPlannerReturns
    \/ XCoderReturns
    \/ XReviewReturns
    \/ XTestReturns
    \/ XThinkRaises
    \/ DlgNext

SpecChat == Init /\ [][NextChat]_vars

\* One session runs one request at a time: a pipeline build (run_build) or
\* a chat BUILD (run_chat).
NextBuilds == (x_pc = "idle" /\ Next) \/ (pc = "idle" /\ NextChat)

SpecBuilds == Init /\ [][NextBuilds]_vars

\* ---------------------------------------------------------- sandbox actions
\* Sandbox.setup
SbSetup ==
    /\ sb_made < MaxSetups
    /\ SbxSet([SbSetupDo(Sbx) EXCEPT !.last = [op |-> "setup", outcome |-> "returned"]])
    /\ UNCHANGED <<engineVars, dlgVars, convVars, projectVars, laterVars>>

\* Sandbox.cleanup; "before" keeps what the sandbox held when it was called
SbCleanup ==
    /\ SbxSet([SbCleanupDo(Sbx) EXCEPT
                  !.last = [op |-> "cleanup", outcome |-> "returned",
                            before |-> [work_dir |-> sb_work_dir, dirs |-> sb_dirs,
                                        prev |-> sb_last.op]]])
    /\ UNCHANGED <<engineVars, dlgVars, convVars, projectVars, laterVars>>

\* Sandbox.write_file(p, c)
SbWriteFile ==
    /\ sb_work_dir # NoDir \/ sb_made < MaxSetups
    /\ \E p \in SandboxPaths, c \in Contents : SbxSet(SbWriteFileDo(Sbx, p, c))
    /\ UNCHANGED <<engineVars, dlgVars, convVars, projectVars, laterVars>>

\* Sandbox.write_files(q)
SbWriteFiles ==
    /\ sb_work_dir # NoDir \/ sb_made < MaxSetups
    /\ \E q \in Maps : SbxSet(SbWriteFilesDo(Sbx, q))
    /\ UNCHANGED <<engineVars, dlgVars, convVars, projectVars, laterVars>>

\* A command run in the sandbox (run_python and the like run generated code
\* with the work directory as cwd) removes the work directory.
SbCommandRemovesDir ==
    /\ sb_work_dir # NoDir /\ sb_work_dir \in sb_dirs
    /\ sb_dirs' = sb_dirs \ {sb_work_dir}
    /\ sb_files' = {f \in sb_files : f.dir # sb_work_dir}
    /\ sb_last' = [op |-> "run_command", outcome |-> "returned"]
    /\ UNCHANGED <<sb_work_dir, sb_outside, sb_made>>
    /\ UNCHANGED <<engineVars, dlgVars, convVars, projectVars, laterVars>>

NextSandbox == SbSetup \/ SbCleanup \/ SbWriteFile \/ SbWriteFiles \/ SbCommandRemovesDir

SpecSandbox == Init /\ [][NextSandbox]_vars

\* ---------------------------------------------------------- project actions
\* The ids of the rows the modelled requests have inserted.
NamedIds == {db_projects[i].id : i \in {j \in 1..Len(db_projects) : db_projects[j].name # "other"}}

NamedRows == Cardinality(NamedIds)

\* _create_project_dir can be given slug within the modelled suffixes.
SlugFree(slug) == \E k \in 0..MaxSuffix : Dir(slug, k) \notin disk

\* _execute_build in session s, the planner's project name being name:
\* _setup_project, then db.update_project(project_id, plan_json=...)
BuildSetsUp ==
    \E s \in Sessions, name \in ProjectNames \ {"project"} :
        /\ NamedRows < MaxProjects
        /\ NameAsMsg(name).slug # "" => SlugFree(NameAsMsg(name).slug)
        /\ LET w == SetupProject(Store(s), name)
           IN  StoreSet(s, [w EXCEPT !.db = UpdateProject(@, w.st.active_project_id)])
        /\ UNCHANGED <<loc_last, engineVars, dlgVars, convVars, sandboxVars, laterVars>>

\* _execute_code_only, _execute_fix, _execute_review, _execute_test in
\* session s: _ensure_project_dir()
EnsureProjectDir ==
    \E s \in Sessions :
        /\ NamedRows < MaxProjects
        /\ StoreSet(s, SetupProject(Store(s), "project"))
        /\ UNCHANGED <<loc_last, engineVars, dlgVars, convVars, sandboxVars, laterVars>>

\* resume_project(id) in session s
SessionResumes ==
    \E s \in Sessions, id \in NamedIds \cup {db_next_id} :
        /\ StoreSet(s, ResumeProject(Store(s), id))
        /\ UNCHANGED <<loc_last, engineVars, dlgVars, convVars, sandboxVars, laterVars>>

\* clear() in session s: self.state = ConversationState()
SessionClears ==
    \E s \in Sessions :
        /\ sessions[s] # NoProject
        /\ sessions' = [sessions EXCEPT ![s] = NoProject]
        /\ UNCHANGED <<db_projects, db_next_id, disk, loc_last>>
        /\ UNCHANGED <<engineVars, dlgVars, convVars, sandboxVars, laterVars>>

\* FileLocator.resolve(m, active) called on its own
LocatorResolves ==
    \E m \in Messages, active \in NamedIds \cup {0} :
        /\ m.slug # "" => SlugFree(m.slug)
        /\ LET r == Resolve(db_projects, disk, m, active)
           IN  /\ disk' = r.disk
               /\ loc_last' = Resolved(m, active, r)
        /\ UNCHANGED <<db_projects, db_next_id, sessions>>
        /\ UNCHANGED <<engineVars, dlgVars, convVars, sandboxVars, laterVars>>

\* A project directory is removed from disk (by the user).
DirectoryRemoved ==
    \E d \in disk :
        /\ disk' = disk \ {d}
        /\ loc_last' = [op |-> "none"]
        /\ UNCHANGED <<db_projects, db_next_id, sessions>>
        /\ UNCHANGED <<engineVars, dlgVars, convVars, sandboxVars, laterVars>>

\* ListLimit other projects are created and become the most recently
\* updated rows (their directories are not followed).
OthersCreated ==
    /\ \A i \in 1..Len(db_projects) : db_projects[i].name # "other"
    /\ db_projects' =
          [i \in 1..ListLimit |->
              [id |-> db_next_id + ListLimit - i, name |-> "other",
               directory |-> Dir("other", i)]] \o db_projects
    /\ db_next_id' = db_next_id + ListLimit
    /\ loc_last' = [op |-> "none"]
    /\ UNCHANGED <<disk, sessions>>
    /\ UNCHANGED <<engineVars, dlgVars, convVars, sandboxVars, laterVars>>

\* FileLocator.create_project_for_dir(directory, name), the directory being
\* the one resolve has just returned without an id (each name is
\* used for one row; "MyApp" and "myapp" both occur in a message that names
\* either)
LocatorCreatesProject ==
    \E name \in {"MyApp", "myapp"} :
        /\ \A i \in 1..Len(db_projects) : db_projects[i].name # name
        /\ loc_last.op = "resolve" /\ loc_last.id = 0
        /\ db_projects' = CreateProject(db_projects, db_next_id, name, loc_last.directory)
        /\ db_next_id' = db_next_id + 1
        /\ loc_last' = [op |-> "none"]
        /\ UNCHANGED <<disk, sessions>>
        /\ UNCHANGED <<engineVars, dlgVars, convVars, sandboxVars, laterVars>>

\* The sessions of the conversational orchestrator on one store.
NextProjects ==
    \/ BuildSetsUp \/ EnsureProjectDir \/ SessionResumes \/ SessionClears
    \/ DirectoryRemoved \/ OthersCreated

SpecProjects == Init /\ [][NextProjects]_vars

\* FileLocator on its own, over a store and a disk that change.
NextLocator ==
    \/ LocatorResolves \/ LocatorCreatesProject
    \/ DirectoryRemoved \/ OthersCreated

SpecLocator == Init /\ [][NextLocator]_vars

\* ------------------------------------------------------------ pool actions
\* The ids create is called with: one that is in the pool, or the next one.
PoolCreateIds ==
    {id \in PoolIds : id = 1 \/ \E i \in 1..Len(pool) : id <= pool[i].id + 1}

\* The Sandbox objects dropped without cleanup, and those cleaned up.
PoolDropped == Cardinality(pool_live) - Len(pool)

PoolCleaned == pool_made - Cardinality(pool_live)

PoolCreates ==
    \E id \in PoolCreateIds :
        /\ pool_made < MaxCreates
        /\ PoolAt(Pl, id) # {} => PoolDropped < MaxDropped
        /\ Len(pool) >= MAX_SANDBOXES => PoolCleaned < MaxCleaned
        /\ PlSet(PoolCreate(Pl, id), "create")
        /\ UNCHANGED <<engineVars, dlgVars, convVars, sandboxVars, projectVars>>
        /\ UNCHANGED <<mgrVars, connVars, chatVars, raceVars>>

\* SandboxManager.get(id): no state of the manager changes
PoolGets ==
    \E id \in PoolIds :
        /\ PlSet(Pl, IF PoolAt(Pl, id) = {} THEN "get_none" ELSE "get")
        /\ UNCHANGED <<engineVars, dlgVars, convVars, sandboxVars, projectVars>>
        /\ UNCHANGED <<mgrVars, connVars, chatVars, raceVars>>

PoolDestroys ==
    \E id \in PoolIds :
        /\ PoolCleaned < MaxCleaned
        /\ PlSet(PoolDestroy(Pl, id), "destroy")
        /\ UNCHANGED <<engineVars, dlgVars, convVars, sandboxVars, projectVars>>
        /\ UNCHANGED <<mgrVars, connVars, chatVars, raceVars>>

PoolDestroysAll ==
    /\ PoolCleaned + Len(pool) <= MaxCleaned
    /\ PlSet(PoolDestroyAll(Pl), "destroy_all")
    /\ UNCHANGED <<engineVars, dlgVars, convVars, sandboxVars, projectVars>>
    /\ UNCHANGED <<mgrVars, connVars, chatVars, raceVars>>

NextPool == PoolCreates \/ PoolGets \/ PoolDestroys \/ PoolDestroysAll

SpecPool == Init /\ [][NextPool]_vars

\* --------------------------------------------------------- manager actions
\* handle_new_session, resolve_session: mgr.create_session
MgrCreates ==
    /\ mgr_made < MaxSessionsMade
    /\ MgSet(MgrCreateSession(Mg))
    /\ UNCHANGED <<engineVars, dlgVars, convVars, sandboxVars, projectVars>>
    /\ UNCHANGED <<poolVars, connVars, chatVars, raceVars>>

\* handle_close_session: mgr.close_session(id)
MgrCloses ==
    \E id \in 1..MaxSessionsMade :
        /\ MgSet(MgrCloseSession(Mg, id))
        /\ UNCHANGED <<engineVars, dlgVars, convVars, sandboxVars, projectVars>>
        /\ UNCHANGED <<poolVars, connVars, chatVars, raceVars>>

\* ConnectionManager.disconnect: mgr.cleanup_all(); a new connection gets a
\* new manager
MgrCleansUp ==
    /\ MgSet(MgrCleanupAll(Mg))
    /\ UNCHANGED <<engineVars, dlgVars, convVars, sandboxVars, projectVars>>
    /\ UNCHANGED <<poolVars, connVars, chatVars, raceVars>>

NextManager == MgrCreates \/ MgrCloses \/ MgrCleansUp

SpecManager == Init /\ [][NextManager]_vars

\* ------------------------------------------------------ connection actions
\* The client sends a message; new_session only while an id of the model is
\* sure to be free when the message is handled.
ClientSends ==
    \E m \in ClientMessages :
        /\ c_pc.at \notin {"dead", "closed"}
        /\ Len(c_inbox) < MaxInbox
        /\ m.type = "new_session" => Len(c_status) + Len(c_inbox) < Cardinality(Sessions)
        /\ c_inbox' = Append(c_inbox, m)
        /\ UNCHANGED <<c_pc, c_status, c_running>>
        /\ UNCHANGED <<engineVars, dlgVars, convVars, sandboxVars, projectVars>>
        /\ UNCHANGED <<poolVars, mgrVars, chatVars, raceVars>>

\* websocket.receive_json returns the next message and the loop handles it
EndpointReceives ==
    /\ c_pc.at = "receive" /\ c_inbox # <<>>
    /\ CnSet(Handle([Cn EXCEPT !.inbox = Tail(@)], Head(c_inbox)))
    /\ UNCHANGED <<engineVars, dlgVars, convVars, sandboxVars, projectVars>>
    /\ UNCHANGED <<poolVars, mgrVars, chatVars, raceVars>>

\* receive_json raises WebSocketDisconnect: manager.disconnect, cleanup_all
EndpointDisconnected ==
    /\ c_pc.at = "receive" /\ c_inbox = <<>>
    /\ CnSet([Cn EXCEPT !.status = <<>>,
                        !.pc = [at |-> "closed", session |-> "none", type |-> "none"]])
    /\ UNCHANGED <<engineVars, dlgVars, convVars, sandboxVars, projectVars>>
    /\ UNCHANGED <<poolVars, mgrVars, chatVars, raceVars>>

\* run_in_executor returns
WorkerReturns ==
    /\ c_pc.at = "await"
    /\ CnSet(Finish(Cn))
    /\ UNCHANGED <<engineVars, dlgVars, convVars, sandboxVars, projectVars>>
    /\ UNCHANGED <<poolVars, mgrVars, chatVars, raceVars>>

\* run_in_executor raises what orchestrator.chat raised
WorkerRaises ==
    /\ c_pc.at = "await" /\ c_pc.type = "chat"
    /\ CnSet(Escape(Cn))
    /\ UNCHANGED <<engineVars, dlgVars, convVars, sandboxVars, projectVars>>
    /\ UNCHANGED <<poolVars, mgrVars, chatVars, raceVars>>

NextConnection ==
    \/ ClientSends \/ EndpointReceives \/ EndpointDisconnected
    \/ WorkerReturns \/ WorkerRaises

SpecConnection == Init /\ [][NextConnection]_vars

\* The event loop runs the endpoint whenever a message has arrived and the
\* endpoint is at receive_json; how long a request takes is not bounded.
FairSpecConnection == SpecConnection /\ WF_vars(EndpointReceives)

\* ----------------------------------------------------------------- sessions
\* The orders in which cleanup_all can meet the sessions.
CloseOrders ==
    {o \in [1..Cardinality(Sessions) -> Sessions] : \A i, j \in DOMAIN o : o[i] = o[j] => i = j}

\* cleanup_all over the sessions in the given order: each orchestrator's
\* clear() on the store the earlier ones left
RECURSIVE CleanupAll(_, _)
CleanupAll(tokens, order) ==
    IF order = <<>> THEN [db_tokens |-> tokens, written |-> {}]
    ELSE With(Clear([Ch(Head(order)) EXCEPT !.db_tokens = tokens]),
              LAMBDA c : With(CleanupAll(c.db_tokens, Tail(order)),
                   LAMBDA r : [db_tokens |-> r.db_tokens,
                               written |-> c.written \cup r.written]))

\* A chat message to session s: run_chat -> orchestrator.chat
ChatRequest ==
    \E s \in Sessions, route \in RouterOutcomes :
        \E o \in WorkOutcomes(route) :
            /\ req_n < MaxRequests
            /\ \E c \in {Ch(s)} : \E h \in {Chat(c, req_n + 1, route, o)} :
                   /\ ChSet(s, h.c)
                   /\ req_last' = [op |-> "chat", session |-> s,
                                   undecided |-> route \in NoDecision,
                                   failed |-> WorkFailed(route, o), type |-> h.type,
                                   invoked |-> h.invoked, captured |-> h.captured]
            /\ req_n' = req_n + 1
            /\ UNCHANGED <<loc_last, engineVars, dlgVars, convVars, sandboxVars>>
            /\ UNCHANGED <<poolVars, mgrVars, connVars, raceVars>>

\* A resume message to session s: run_resume -> orchestrator.resume_project
ResumeRequest ==
    \E s \in Sessions, id \in 1..db_next_id :
        /\ \E c \in {Ch(s)} : \E r \in {ResumeProjectPlan(c, id)} : ChSet(s, r)
        /\ req_last' = [op |-> "resume", session |-> s, id |-> id]
        /\ req_n < MaxRequests /\ req_n' = req_n + 1
        /\ UNCHANGED <<loc_last, engineVars, dlgVars, convVars, sandboxVars>>
        /\ UNCHANGED <<poolVars, mgrVars, connVars, raceVars>>

\* A clear message to session s: orchestrator.clear()
ClearRequest ==
    \E s \in Sessions :
        /\ \E c \in {Ch(s)} : \E r \in {Clear(c)} : ChSet(s, r)
        /\ req_last' = [op |-> "clear"]
        /\ req_n < MaxRequests /\ req_n' = req_n + 1
        /\ UNCHANGED <<loc_last, engineVars, dlgVars, convVars, sandboxVars>>
        /\ UNCHANGED <<poolVars, mgrVars, connVars, raceVars>>

\* close_session(s): the session is popped and its orchestrator cleared; s
\* then stands for a session constructed later
CloseSession ==
    \E s \in Sessions :
        /\ \E c \in {Ch(s)} : \E r \in {Clear(c)} :
               /\ db_tokens' = r.db_tokens
               /\ req_last' = [op |-> "close", closed |-> {s}, written |-> r.written]
        /\ sessions' = [sessions EXCEPT ![s] = NoProject]
        /\ agents' = [agents EXCEPT ![s] = NewAgents]
        /\ plans' = [plans EXCEPT ![s] = NoPlanJson]
        /\ UNCHANGED <<db_projects, db_next_id, disk, db_plans>>
        /\ req_n < MaxRequests /\ req_n' = req_n + 1
        /\ UNCHANGED <<loc_last, engineVars, dlgVars, convVars, sandboxVars>>
        /\ UNCHANGED <<poolVars, mgrVars, connVars, raceVars>>

\* ConnectionManager.disconnect: cleanup_all closes every session
Disconnect ==
    \E order \in CloseOrders :
        /\ \E r \in {CleanupAll(db_tokens, order)} :
               /\ db_tokens' = r.db_tokens
               /\ req_last' = [op |-> "cleanup", closed |-> Sessions, written |-> r.written]
        /\ sessions' = [s \in Sessions |-> NoProject]
        /\ agents' = [s \in Sessions |-> NewAgents]
        /\ plans' = [s \in Sessions |-> NoPlanJson]
        /\ UNCHANGED <<db_projects, db_next_id, disk, db_plans>>
        /\ req_n < MaxRequests /\ req_n' = req_n + 1
        /\ UNCHANGED <<loc_last, engineVars, dlgVars, convVars, sandboxVars>>
        /\ UNCHANGED <<poolVars, mgrVars, connVars, raceVars>>

NextSession == ChatRequest \/ ResumeRequest \/ ClearRequest \/ CloseSession \/ Disconnect

SpecSession == Init /\ [][NextSession]_vars

\* ------------------------------------------- concurrent resolve calls
\* The messages resolve extracts a new project name from.
NamingMessages ==
    {m \in Messages \cup {NameAsMsg(n) : n \in ProjectNames} : m.slug # ""}

RaceSet(s, at, target) ==
    /\ res_pc' = [res_pc EXCEPT ![s] = at]
    /\ res_target' = [res_target EXCEPT ![s] = target]

\* The thread of session s, in no call or back from one, calls
\* resolve(m, active); rules (a) and (b) do not apply, and
\* _create_project_dir starts with target = base.
ResolveCalled ==
    \E s \in Sessions, m \in NamingMessages :
        /\ res_pc[s] \in {"idle", "returned"}
        /\ Resolve(db_projects, disk, m, sessions[s].active_project_id).rule = "c"
        /\ RaceSet(s, "exists", Dir(m.slug, 0))
        /\ UNCHANGED <<projectVars, engineVars, dlgVars, convVars, sandboxVars>>
        /\ UNCHANGED <<poolVars, mgrVars, connVars, chatVars>>

\* `while os.path.exists(target)`: one evaluation of the condition, and the
\* loop body when it is true
PathExists ==
    \E s \in Sessions :
        /\ res_pc[s] = "exists"
        /\ IF res_target[s] \in disk
           THEN /\ res_target[s].k < MaxSuffix
                /\ RaceSet(s, "exists", Dir(res_target[s].base, res_target[s].k + 1))
           ELSE RaceSet(s, "makedirs", res_target[s])
        /\ UNCHANGED <<projectVars, engineVars, dlgVars, convVars, sandboxVars>>
        /\ UNCHANGED <<poolVars, mgrVars, connVars, chatVars>>

\* os.makedirs(target, exist_ok=True); return target
Makedirs ==
    \E s \in Sessions :
        /\ res_pc[s] = "makedirs"
        /\ disk' = disk \cup {res_target[s]}
        /\ RaceSet(s, "returned", res_target[s])
        /\ UNCHANGED <<db_projects, db_next_id, sessions, loc_last>>
        /\ UNCHANGED <<engineVars, dlgVars, convVars, sandboxVars>>
        /\ UNCHANGED <<poolVars, mgrVars, connVars, chatVars>>

\* Two sessions' requests in the threads of the executor, each in resolve.
NextRace == ResolveCalled \/ PathExists \/ Makedirs

SpecRace == Init /\ [][NextRace]_vars

\* =================================================================== claims
Before(log, j) == {log[i] : i \in 1..(j - 1)}

\* The phase order as the ProjectStatus enumeration lists it.
EnumRank(st) ==
    CASE st = "planning" -> 1 [] st = "coding" -> 2 [] st = "reviewing" -> 3
      [] st = "testing" -> 4 [] st = "debugging" -> 5 [] st = "verifying" -> 5
      [] OTHER -> 6

\* The phase order build() runs.
BuildRank(st) ==
    CASE st = "planning" -> 1 [] st = "coding" -> 2 [] st = "verifying" -> 3
      [] st = "debugging" -> 4 [] st = "reviewing" -> 5 [] st = "testing" -> 6
      [] OTHER -> 7

NoPlanResponses == {Prose, BadAll, Whole(EmptyDict), Fenced(EmptyDict)}

\* C2: when the planner's response contains no parseable JSON or parses to
\* an empty plan, the status goes from Planning directly to Failed, no later
\* phase is entered, and build() returns success = false with no files.
C2_EmptyPlanFails ==
    planner_said \in NoPlanResponses =>
        /\ pc = "done"
        /\ status = "failed"
        /\ status_log = <<"planning", "planning", "failed">>
        /\ result.returned /\ ~result.success
        /\ result.partial_files = <<>>
        /\ messages \cap {"plan_ready", "task_start", "file_created"} = {}

\* C2 witness: the planner answered with an empty JSON object and the build
\* has returned.
C2_Witness == planner_said = Whole(EmptyDict) /\ pc = "done" /\ status = "failed"

\* The planner responses whose plan parses but lacks a task list, a project
\* name or a file manifest.
PartialPlanResponses == {Fenced(v) : v \in PartialPlans}

\* C3: a plan that parses but lacks required structure is fatal:
\* Orchestrator.build ends in Failed and _execute_build returns an error
\* result, in both cases without starting the Coding phase.
C3_PartialPlanFatal ==
    /\ planner_said \in PartialPlanResponses =>
          /\ "coding" \notin Range(status_log)
          /\ pc = "done" /\ status = "failed"
    /\ x_said \in PartialPlanResponses =>
          /\ "Coding" \notin Range(x_phases)
          /\ x_pc = "done" /\ x_result.type = "error"

\* C4: within one build the debug iteration counter never exceeds
\* max_iterations, and the debug loop invokes the fixer at most
\* max_iterations times in total, over all entries of the loop.
C4_IterationsBounded ==
    /\ iterations <= MaxIterations
    /\ debugger_calls <= MaxIterations

\* C4 witness: the debug loop was entered a second time (after the lint and
\* after the run), invoked the fixer again in that run, and the budget is
\* used up.
C4_Witness ==
    /\ debug_runs = 2 /\ debug_for = "run"
    /\ "debug_attempt" \in loop_events
    /\ iterations = MaxIterations /\ debugger_calls = MaxIterations

\* The current debug-loop run has returned to _phase_verification.
LoopReturned ==
    /\ debug_runs > 0
    /\ pc \notin {"debug_call", "rerun_call"}
    /\ ~(pc = "done" /\ ~result.success /\ result.at \in {"debug_call", "rerun_call"})

C6_ExhaustionContinues ==
    /\ [][("debug_exhausted" \notin messages /\ "debug_exhausted" \in messages')
            => /\ pc' \in {"deps_call", "run_call", "review_call"}
               /\ status' \in {"debugging", "reviewing"}
               /\ errors' = errors]_vars
    /\ []("debug_exhausted" \in messages /\ pc = "done" /\ errors = <<>>
            => /\ status = "complete" /\ result.success
               /\ {"reviewing", "testing"} \subseteq Range(status_log))

\* C6 witness: the debug loop used up its attempts and the build completed.
C6_Witness ==
    /\ "debug_exhausted" \in messages /\ iterations = MaxIterations
    /\ pc = "done" /\ status = "complete"

\* C7: when a phase raises, build() returns: the status is Failed, the error
\* text is the newest entry of state.errors and was emitted as an error
\* event, and the result has success = false and the files produced so far.
C7_ExceptionHandled ==
    /\ pc = "done" => result.returned
    /\ (pc = "done" /\ ~result.success) =>
          /\ status = "failed"
          /\ errors = <<result.error>>
          /\ "error" \in messages
          /\ result.partial_files = files
    /\ status = "failed" => pc = "done" /\ ~result.success

\* C7 witness: the tester raised after files had been produced.
C7_Witness ==
    /\ pc = "done" /\ status = "failed" /\ result.at = "test_call"
    /\ files # <<>> /\ result.partial_files = files

\* C8: every build terminates with status Complete or Failed (every
\* external call returning or raising), and once the status is Complete or
\* Failed it does not change.
C8_Terminates ==
    /\ <>(pc = "done" /\ status \in {"complete", "failed"})
    /\ [][(status \in {"complete", "failed"}) => (status' = status)]_vars

\* C8 witness: a build that ran the debug loop to its last attempt has
\* returned.
C8_Witness ==
    /\ pc = "done" /\ status = "complete" /\ debugger_calls = MaxIterations

\* The turns of the second role (Reviewer, Debugger) so far: its transcript
\* entries and the call it is in.
SecondRoleTurns ==
    Cardinality({i \in 1..Len(entries) : entries[i].agent = RoleB(d_kind)})
        + (IF d_pc = "b_call" THEN 1 ELSE 0)

\* C9: in both dialogues, for every max_rounds and every sequence of
\* responses, the number of turns of the second role never exceeds
\* max_rounds.
C9_RoundsBounded ==
    d_pc # "idle" => SecondRoleTurns <= max_rounds

\* C9 witness: a dialogue with the largest max_rounds has ended after the
\* second role had max_rounds turns.
C9_Witness ==
    /\ d_pc = "returned" /\ max_rounds = MaxRounds
    /\ SecondRoleTurns = max_rounds

\* C10 as claimed: in both dialogues, for every max_rounds, exchange_count
\* never exceeds max_exchanges = 2 * max_rounds, during the dialogue and at
\* its end.
C10_ExchangesAsClaimed ==
    d_pc # "idle" => Len(entries) <= 2 * max_rounds

\* C10, amended: exchange_count never exceeds 2 * max_rounds when max_rounds
\* is at least 1; with max_rounds = 0 the first role's initial response is
\* still recorded, and exchange_count is 1.
C10_ExchangesBounded ==
    d_pc # "idle" =>
        Len(entries) <= (IF max_rounds >= 1 THEN 2 * max_rounds ELSE 1)

\* C10 witness: a dialogue with the largest max_rounds has ended with
\* 2 * max_rounds entries.
C10_Witness ==
    /\ d_pc = "returned" /\ max_rounds = MaxRounds
    /\ Len(entries) = 2 * max_rounds

\* The rejection signals of _is_approved (the negative markers).
NegativeMarkers == {"issue", "bug", "problem", "fix", "error", "vulnerability", "concern"}

\* The events with the given type that the dialogue has emitted.
EventsOf(type) == {i \in 1..Len(d_events) : d_events[i].type = type}

\* C11: when the Reviewer's first response contains "approved" and no
\* negative marker, run_code_review_dialogue converges on that turn: the
\* Reviewer was invoked exactly once, the Coder was not asked to revise, and
\* dialogue_resolved was emitted once, with rounds = 1, before dialogue_end.
C11_ApprovedConverges ==
    (/\ d_kind = "review" /\ Len(entries) >= 2
     /\ Has(entries[2].content, "approved")
     /\ \A s \in NegativeMarkers : ~Has(entries[2].content, s))
    => /\ d_pc = "returned"
       /\ Len(entries) = 2
       /\ entries[1].agent = "Coder" /\ entries[2].agent = "Reviewer"
       /\ d_events = <<[type |-> "dialogue_start", n |-> 0],
                       [type |-> "dialogue_exchange", n |-> 1],
                       [type |-> "dialogue_resolved", n |-> 1],
                       [type |-> "dialogue_end", n |-> 2]>>
       /\ d_return = entries[2]

\* C11 witness: the Reviewer's first answer was "approved", with rounds to
\* spare, and the dialogue has returned.
C11_Witness ==
    /\ d_kind = "review" /\ max_rounds = MaxRounds /\ d_pc = "returned"
    /\ Len(entries) = 2 /\ entries[2].content = <<"approved">>

\* The Reviewer's response at transcript position i holds both "approved"
\* and "bug".
ApprovedAndBug(i) ==
    /\ i \in 1..Len(entries) /\ entries[i].agent = "Reviewer"
    /\ Has(entries[i].content, "approved") /\ Has(entries[i].content, "bug")

\* The dialogue converged on the Reviewer's response at position i (round
\* i \div 2): it is the last entry and dialogue_resolved names its round.
ConvergedAt(i) ==
    /\ Len(entries) = i /\ d_pc = "returned"
    /\ \E e \in EventsOf("dialogue_resolved") : d_events[e].n = i \div 2

\* The Coder was invoked for a revision after the response at position i.
RevisionAskedAfter(i) ==
    \/ Len(entries) > i /\ entries[i + 1].agent = "Coder"
    \/ Len(entries) = i /\ d_pc \in {"a2_call", "raised"}

\* C12 as claimed: a Reviewer response with both "approved" and "bug" does
\* not converge the code-review dialogue on that turn, and if rounds remain
\* the Coder is invoked again.
C12_MixedNeverConverges ==
    \A i \in 1..Len(entries) :
        (d_kind = "review" /\ ApprovedAndBug(i)) =>
            /\ ~ConvergedAt(i)
            /\ (i \div 2 < max_rounds) => RevisionAskedAfter(i)

\* C12, amended: a Reviewer response with both "approved" and "bug"
\* converges the dialogue on that turn exactly when "approved" occurs more
\* often than "not approved"; otherwise it does not converge and, if rounds
\* remain, the Coder is invoked for a revision.
C12_MixedConvergesOnApproved ==
    \A i \in 1..Len(entries) :
        (d_kind = "review" /\ ApprovedAndBug(i)) =>
            IF Count(entries[i].content, "approved") > Count(entries[i].content, "not approved")
            THEN ConvergedAt(i)
            ELSE /\ ~ConvergedAt(i)
                 /\ \A e \in EventsOf("dialogue_resolved") : d_events[e].n # i \div 2
                 /\ (i \div 2 < max_rounds) => RevisionAskedAfter(i)

\* C12 witness: the Reviewer answered "not approved ... bug" in round 1 and
\* the Coder revised; the Reviewer then answered "approved ... bug" and the
\* dialogue converged in round 2.
C12_Witness ==
    /\ d_kind = "review" /\ d_pc = "returned" /\ Len(entries) = 4
    /\ entries[2].content = <<"not approved", "bug">>
    /\ entries[3].agent = "Coder"
    /\ entries[4].content = <<"approved", "bug">>

\* What the claim requires of a path and a content for write_file to
\* succeed: relative, no ".." segment, resolving strictly inside the work
\* directory, an extension _validate_file_extension allows, at most 1 MiB.
ClaimedWritable(p, c) ==
    /\ ~p.abs /\ p.dots # "segment" /\ p.inside /\ ~p.root
    /\ ValidateFileExtension(p)
    /\ c.nbytes <= MAX_FILE_SIZE

\* C13: Sandbox.write_file(p, content) succeeds (the file is written, the
\* call returns) if and only if p is relative, has no parent-directory
\* segment, resolves strictly inside the work directory, has an allowed
\* extension and the content is at most 1 MiB; otherwise it fails, and
\* nothing is ever written outside the work directory.
C13_WriteFileIff ==
    /\ sb_outside = {}
    /\ sb_last.op = "write_file" =>
          /\ (sb_last.outcome = "returned") <=> ClaimedWritable(sb_last.path, sb_last.content)
          /\ sb_last.outcome = "returned" =>
                [dir |-> sb_work_dir, path |-> sb_last.path.name] \in sb_files

\* An entry passes write_file's validation.
PassesValidation(e) ==
    /\ ValidatePath(e.path) /\ ValidateFileExtension(e.path)
    /\ e.content.len <= MAX_FILE_SIZE

\* The names of the entries of map q that pass validation, in q's order.
RECURSIVE ValidNames(_)
ValidNames(q) ==
    IF q = <<>> THEN <<>>
    ELSE (IF PassesValidation(Head(q)) THEN <<Head(q).path.name>> ELSE <<>>)
            \o ValidNames(Tail(q))

\* C14: Sandbox.write_files always returns normally, with the list of the
\* written paths: every entry that passes validation is written, every
\* violating entry is skipped on its own and does not keep the entries after
\* it from being written.
C14_BatchNeverAborts ==
    sb_last.op = "write_files" =>
        /\ sb_last.outcome = "returned"
        /\ sb_last.written = ValidNames(sb_last.map)
        /\ \A i \in 1..Len(sb_last.written) :
              [dir |-> sb_work_dir, path |-> sb_last.written[i]] \in sb_files

\* C15: Sandbox.cleanup never raises, twice in a row or without a setup
\* before it, and after any cleanup call the sandbox has no work directory
\* left: the directory it had is not on disk and work_dir is unset.
C15_CleanupLeavesNothing ==
    sb_last.op = "cleanup" =>
        /\ sb_last.outcome = "returned"
        /\ sb_last.before.work_dir \notin sb_dirs
        /\ sb_work_dir = NoDir

\* C16: after Orchestrator.build has returned, on success, on a failure in
\* any phase or after an exhausted debug loop, the sandbox of the build has
\* no work directory left.
C16_SandboxTornDown ==
    pc = "done" => ~work_dir

\* C16 witness: the build set its sandbox up, ran the code, and failed
\* inside the debug loop; it has returned.
C16_Witness ==
    /\ pc = "done" /\ status = "failed" /\ result.at = "debug_call"
    /\ "executing" \in messages /\ ~work_dir

\* C17: no two Project records of the durable store have the same working
\* directory, whatever sequence of requests the sessions have served.
C17_DirectoriesUnique ==
    \A i, j \in 1..Len(db_projects) :
        i # j => db_projects[i].directory # db_projects[j].directory

\* C18: at no time are two Sessions bound to the same Project working
\* directory.
C18_SessionsDisjoint ==
    \A s1, s2 \in Sessions :
        (s1 # s2 /\ sessions[s1].project_dir # NoDirectory)
            => sessions[s1].project_dir # sessions[s2].project_dir

\* The rows of db, by position, whose name occurs case-insensitively in the
\* message m.
Mentioned(db, m) == {i \in 1..Len(db) : Lower(db[i].name) \in m.mentions}

\* r answers by rules (b), (c), (d), given the store and the disk before the
\* call and the disk after it.
LowerRules(db, before, after, r) ==
    LET bound == {i \in 1..Len(db) : db[i].id = r.active /\ db[i].directory \in before}
    IN  IF r.active # 0 /\ bound # {}
        THEN \E i \in bound : r.id = db[i].id /\ r.directory = db[i].directory
        ELSE IF r.message.slug # ""
        THEN /\ r.id = 0
             /\ r.directory.base = r.message.slug
             /\ r.directory \notin before /\ r.directory \in after
        ELSE r.id = 0 /\ r.directory = ScratchDir

C20_FreshDirectory ==
    [][(/\ loc_last'.op = "resolve"
        /\ Mentioned(db_projects, loc_last'.message) = {}
        /\ loc_last'.active = 0
        /\ loc_last'.message.slug # "") =>
          LET r == loc_last'
              slug == r.message.slug
          IN  /\ r.id = 0
              /\ r.directory \notin disk /\ r.directory \in disk'
              /\ r.directory.base = slug
              /\ Dir(slug, 0) \notin disk => r.directory.k = 0
              /\ Dir(slug, 0) \in disk =>
                    /\ r.directory.k >= 1
                    /\ \A j \in 1..(r.directory.k - 1) : Dir(slug, j) \in disk]_vars

\* resolve has just created slug-1 while slug and slug-2 existed.
C20_Witness ==
    /\ loc_last.op = "resolve" /\ loc_last.rule = "c" /\ loc_last.active = 0
    /\ Mentioned(db_projects, loc_last.message) = {}
    /\ loc_last.directory = Dir(loc_last.message.slug, 1)
    /\ Dir(loc_last.message.slug, 0) \in disk
    /\ Dir(loc_last.message.slug, 2) \in disk

\* C29: whatever create and destroy calls are made on the sandbox pool, the
\* sandboxes set up through it and not yet torn down never number more than
\* MAX_SANDBOXES.
C29_LiveSandboxesBounded == Cardinality(pool_live) <= MAX_SANDBOXES

\* C30: when create is called with the pool at its limit, the sandbox torn
\* down is the one created earliest among those in the pool.
C30_EvictsEarliestCreated ==
    [][(Len(pool) >= MAX_SANDBOXES /\ pool_made' = pool_made + 1) =>
          \A i \in 1..Len(pool) :
              pool[i].made \in pool_live' \/
              \A j \in 1..Len(pool) : pool[i].made <= pool[j].made]_vars

\* C22: the open sessions of one SessionManager never number more than
\* MAX_SESSIONS_PER_CONNECTION, and a create_session at the limit is
\* rejected and leaves the open sessions as they were.
C22_SessionsBounded ==
    [][/\ Cardinality(mgr_sessions') <= MAX_SESSIONS_PER_CONNECTION
       /\ (/\ mgr_last' \in {"created", "rejected"}
           /\ Cardinality(mgr_sessions) >= MAX_SESSIONS_PER_CONNECTION)
             => (mgr_last' = "rejected" /\ mgr_sessions' = mgr_sessions)]_vars

\* create_session has just been rejected with ten sessions open, after a
\* session had been closed and another created.
C22_Witness ==
    /\ mgr_last = "rejected"
    /\ Cardinality(mgr_sessions) = MAX_SESSIONS_PER_CONNECTION
    /\ 1 \notin mgr_sessions

\* C25: within one session, chat, build and resume requests are processed
\* one at a time: no request of a session starts while an earlier one of
\* that session is still running.
C25_OneAtATime == \A s \in Sessions : c_running[s] <= 1

\* A request of a session is running while a second request for the same
\* session has arrived.
C25_Witness ==
    \E s \in Sessions :
        /\ c_running[s] = 1
        /\ \E i \in 1..Len(c_inbox) :
              /\ c_inbox[i].type \in RequestTypes /\ c_inbox[i].ok
              /\ c_inbox[i].session = s

\* A request message for another open session has arrived and is the next
\* to be received while the request of one session is running.
OtherSessionWaits ==
    /\ c_pc.at = "await" /\ c_inbox # <<>>
    /\ Head(c_inbox).type \in RequestTypes
    /\ Head(c_inbox).session \in COpen(Cn) \ {c_pc.session}

ChatStep == req_n' = req_n + 1 /\ req_last'.op = "chat"

\* C27: when the capability fails during BUILD, CODE_ONLY, FIX, REVIEW or
\* TEST, chat returns an error result and no exception leaves chat.
C27_FailureIsErrorResult ==
    [][(ChatStep /\ req_last'.failed) => req_last'.type = "error"]_vars

\* C28: whatever the classifier yields that is not a decision with a known
\* action, chat returns a conversation result, invokes no worker role and
\* does not fail.
C28_FallsBackToConversation ==
    [][(ChatStep /\ req_last'.undecided) =>
          (req_last'.type = "conversation" /\ req_last'.invoked = {})]_vars

\* C24: a token a worker's run reported during a request of a session bound
\* to project P is in the store under (P, role) when the request is over,
\* and the store holds one token per (project, role).
C24_TokenStoredByRequestEnd ==
    [][ChatStep =>
          LET s == req_last'.session
              P == sessions'[s].active_project_id
          IN  /\ P # 0 => \A a \in req_last'.captured :
                     [project |-> P, agent |-> a, token |-> req_n'] \in db_tokens'
              /\ \A t, u \in db_tokens' :
                     (t.project = u.project /\ t.agent = u.agent) => t = u]_vars

\* C21: after resume_project(P) of an existing project, every token saved
\* for P is the role's token, the session's directory and the tool agents'
\* directory are P's stored directory, and the session's plan is P's
\* stored plan.
C21_ResumeRestoresAll ==
    [][(req_last'.op = "resume" /\ GetProject(db_projects, req_last'.id).id # 0) =>
          LET s == req_last'.session
              P == req_last'.id
              row == GetProject(db_projects, P)
          IN  /\ \A t \in GetAllSessions(db_tokens, P) :
                     agents'[s].session_id[t.agent] = t.token
              /\ sessions'[s] = [active_project_id |-> P, project_dir |-> row.directory]
              /\ agents'[s].project_dir = row.directory
              /\ plans'[s] = PlanJson(db_plans, P)]_vars

\* The (project, role, token) rows session s holds for the project it is
\* bound to.
HeldTokens(s) ==
    {[project |-> sessions[s].active_project_id, agent |-> a,
      token |-> agents[s].session_id[a]] :
        a \in {b \in AgentNames : /\ sessions[s].active_project_id # 0
                                   /\ agents[s].session_id[b] # NoToken}}

\* C23: when close_session or cleanup_all destroys a session bound to a
\* project, every role's token is written to the store under (project,
\* role) before the state is discarded; after close_session the store
\* holds it.
C23_TokensSavedOnDestroy ==
    [][req_last'.op \in {"close", "cleanup"} =>
          \A s \in req_last'.closed :
              /\ HeldTokens(s) \subseteq req_last'.written
              /\ req_last'.op = "close" => HeldTokens(s) \subseteq db_tokens']_vars

\* cleanup_all destroyed two sessions bound to projects and wrote the tokens
\* of both.
C23_Witness ==
    /\ req_last.op = "cleanup"
    /\ Cardinality({t.token : t \in req_last.written}) >= 2

\* C32: debug_success is emitted only when the file that was re-run is the
\* entry point whose lint or run failure started the loop.
C32_SuccessMeansEntryPointRuns ==
    [][("debug_success" \notin loop_events /\ "debug_success" \in loop_events')
          => debug_file = main_file]_vars

\* C33: every failed run of the entry point in the Verifying phase (non-zero
\* exit, timeout, rejected script path) enters the debug loop.
C33_FailedRunDebugged ==
    [][(/\ pc = "run_call"
        /\ Len(execution_results') = Len(execution_results) + 1
        /\ ~execution_results'[Len(execution_results')].success)
          => (debug_runs' = debug_runs + 1 /\ debug_for' = "run")]_vars

\* C38: debug_exhausted is emitted only by a loop that used up the
\* iteration budget.
C38_ExhaustedOnlyWhenSpent ==
    "debug_exhausted" \in loop_events => iterations = MaxIterations

\* C39: whatever the fixer's response is, the debug loop does not move the
\* build to Failed: a build that fails at the fixer's call fails because
\* the call itself raised.
C39_FixNeverFailsBuild ==
    [][(pc = "debug_call" /\ status' = "failed") => result'.error = "RuntimeError"]_vars

\* The last response of the given role in the transcript.
FinalResponseOf(role) ==
    LET idx == {i \in 1..Len(entries) : entries[i].agent = role}
    IN  entries[CHOOSE i \in idx : \A j \in idx : j <= i]

\* C34: for every max_rounds >= 1, run_code_review_dialogue returns the
\* final Coder response and run_test_debug_dialogue returns the final Tester
\* response.
C34_ReturnsFinalFirstRole ==
    (d_pc = "returned" /\ max_rounds >= 1) => d_return = FinalResponseOf(RoleA(d_kind))

\* The token the store holds for role a of project id, NoToken when none.
StoredToken(tokens, id, a) ==
    IF \E t \in GetAllSessions(tokens, id) : t.agent = a
    THEN (CHOOSE t \in GetAllSessions(tokens, id) : t.agent = a).token
    ELSE NoToken

\* C35: after resume_project(Q) succeeds on a session bound to another
\* project P, the session's plan is the one stored for Q and every worker
\* role's token is the one stored for Q, absent where Q stores none.
C35_ResumeReplacesAll ==
    [][(/\ req_last'.op = "resume"
        /\ GetProject(db_projects, req_last'.id).id # 0
        /\ sessions[req_last'.session].active_project_id \notin {0, req_last'.id}) =>
          LET s == req_last'.session
              Q == req_last'.id
          IN  /\ \A a \in ToolAgents :
                     agents'[s].session_id[a] = StoredToken(db_tokens, Q, a)
              /\ plans'[s] = PlanJson(db_plans, Q)]_vars

\* The same for the tokens alone.
C35_TokensReplaced ==
    [][(/\ req_last'.op = "resume"
        /\ GetProject(db_projects, req_last'.id).id # 0
        /\ sessions[req_last'.session].active_project_id \notin {0, req_last'.id}) =>
          \A a \in ToolAgents :
              agents'[req_last'.session].session_id[a]
                  = StoredToken(db_tokens, req_last'.id, a)]_vars

\* C36: a chat, build or resume message whose session_id names no open
\* session of the connection is not run against another, open session of
\* that connection.
C36_UnknownIdNotRedirected ==
    [][(/\ c_pc.at = "receive" /\ c_inbox # <<>> /\ c_inbox' = Tail(c_inbox)
        /\ Head(c_inbox).type \in RequestTypes
        /\ Head(c_inbox).session \notin COpen(Cn)
        /\ c_pc'.at = "await")
          => c_pc'.session \notin COpen(Cn)]_vars

\* The executor thread of a request ends, by returning or by raising; the
\* endpoint is resumed when it does and whenever a message has arrived.
FairSpecRequests ==
    /\ SpecConnection
    /\ WF_vars(EndpointReceives)
    /\ WF_vars(WorkerReturns \/ WorkerRaises)

\* Session.status of session s of the connection is v.
StatusIs(s, v) == \E i \in 1..Len(c_status) : c_status[i] = [id |-> s, status |-> v]

\* C37: a chat, build or resume request that set a session's status to
\* working is followed by the status returning to idle, also when the
\* orchestrator call raises.
C37_WorkingReturnsToIdle ==
    \A s \in Sessions : StatusIs(s, "working") ~> StatusIs(s, "idle")

\* The same for the requests that do not raise: build and resume.
C37_BuildResumeReturnToIdle ==
    \A s \in Sessions :
        (StatusIs(s, "working") /\ c_pc.type \in {"build", "resume"}) ~> StatusIs(s, "idle")

\* C31: when a build run by Orchestrator.build (the pipeline a WebSocket
\* 'build' message starts) reaches completion, the step that completes it
\* updates a Project record of the store.
C31_CompletionUpdatesRecord ==
    [][(status # "complete" /\ status' = "complete")
          => (db_projects' # db_projects /\ db_projects' # <<>>)]_vars

\* C40: two resolve calls running at the same time in different sessions
\* that extract the same new project name return different directories.
C40_ConcurrentResolvesDiffer ==
    \A s, u \in Sessions :
        (/\ s # u /\ res_pc[s] = "returned" /\ res_pc[u] = "returned"
         /\ res_target[s].base = res_target[u].base)
        => res_target[s] # res_target[u]

====
